---- MODULE Spec2Model ----
(***************************************************************************)
(* A model of the execution pipeline of @fozooni/exo: ExoTool.execute      *)
(* (the interceptor chain), ExoTool._executeCore (validation, role gate,   *)
(* confirmation gate, lifecycle hooks, executor body) and                  *)
(* ExoTool.safeFireHook.                                                   *)
(*                                                                         *)
(* Conventions.  An optional value (a field that may be absent, a value    *)
(* that may be undefined) is a set with at most one element: {} is         *)
(* "absent".  A JavaScript string that the code takes apart (the           *)
(* validation messages) is a sequence of one-character strings.            *)
(***************************************************************************)
EXTENDS Integers, Sequences, FiniteSets, TLC

\* ------------------------------------------------------------------ bounds

\* longest interceptor list a tool is built with
MaxMw == 2
\* largest limit a rate limiter is made with
MaxLimit == 2
\* most calls made of the tools behind one rate limiter
MaxCalls == 3
\* latest reading of the wall clock (Date.now), in steps of TickMs
MaxNow == 3
\* most issues a schema reports for one input
MaxIssues == 2
\* longest name and longest description a tool is constructed with
MaxNameLen == 2
\* largest maxRetries and largest timeout a tool is configured with
MaxRetries == 2
MaxTimeout == 1
\* largest reading of the monotonic clock (performance.now) in one run
MaxClock == 1

\* ------------------------------------------------------------------ state

VARIABLES
    config,        \* the tool's configuration, fixed at construction
    self,          \* this.name of the tool whose execute is in flight
    clock,         \* performance.now()
    pc,            \* where the call in flight stands
    args,          \* execute's args (the raw arguments)
    context,       \* execute's context
    options,       \* execute's options
    idx,           \* the link of the chain whose code runs (Len + 1: the core)
    startTime,     \* _executeCore's startTime
    validated,     \* validationResult.data, once validation has succeeded
    duration,      \* _executeCore's duration, once the body has settled
    settled,       \* how the body settled, once it has
    ret,           \* what travels up the chain: a result or a thrown error
    log,           \* what happened in this call, in order
    bodyCalls,     \* how often the executor was invoked in this call
    hookFailures,  \* the hooks that threw or rejected in this call, and how
    limit,         \* createRateLimiter's limit, fixed when the limiter is made
    storage,       \* createRateLimiter's storage: key -> {count, resetTime}
    now,           \* Date.now()
    windows,       \* (history) per key, the window in course: when it began
                   \* and which of its calls were passed on to next()
    calls,         \* (history) how many calls were made of a rate-limited tool
    reference,     \* (history) the storage of the same limiter, given the same
                   \* calls, had its cleanup never run
    made,          \* the last new ExoTool(options): its options and its outcome
    parked,        \* the calls in flight that are suspended at an await
    heap,          \* the interceptor arrays: reference -> elements
    built,         \* the tools built: name -> the array its config.middleware
                   \* refers to, and (history) what that array held then
    emitted        \* the tool whose specification is asked for: its JSON schema
                   \* and the last getOpenAISpec(options) with what it returned

\* ------------------------------------------------------- values and types

RiskLevel == {"LOW", "MEDIUM", "HIGH"}

HookNames == {"onStart", "onSuccess", "onError"}

\* The interceptors a tool is built with, by what they do with next():
\*   "pass"  logs, awaits next() once, logs, returns next()'s result
\*   "block" returns a failed result of its own without calling next()
\*   "tag"   awaits next() once and returns the result with metadata replaced
MwKinds == {"pass", "block", "tag"}

\* the tools of the test fixtures, schema {value: string}: "echo", and a second
\* tool "other" behind the same rate limiter
ToolNames == {"echo", "other"}
NoTool == "none"

\* this.name
ToolName == self

\* optional values
Absent == {}
Some(v) == {v}
The(opt) == CHOOSE v \in opt : TRUE

\* JavaScript values of the arguments: a type tag and a printed value
JsString(s) == [type |-> "string", val |-> s]
JsNumber(s) == [type |-> "number", val |-> s]

\* the raw arguments a caller may hand to execute: an object with optional
\* properties value and extra, or something that is not an object
RawObject(value, extra) == [type |-> "object", value |-> value, extra |-> extra]
RawArgs ==
    { RawObject(Some(JsString("hi")), Some(JsString("x"))),
      RawObject(Some(JsNumber("1")), Absent),
      [type |-> "string", value |-> Absent, extra |-> Absent] }

\* ExoContext: user {id, role} and the deprecated isAdmin flag, both optional
Users == { [id |-> "u1", role |-> "guest"], [id |-> "u2", role |-> "admin"] }
ExoContext ==
    [user : {Absent} \cup {Some(u) : u \in Users},
     isAdmin : {Absent, Some(FALSE), Some(TRUE)}]

\* ExecutionOptions: sudo and confirmed, both optional
ExecutionOptions ==
    [sudo : {Absent, Some(FALSE), Some(TRUE)},
     confirmed : {Absent, Some(FALSE), Some(TRUE)}]

\* the default parameters of execute: context = {}, options = {}
EmptyContext == [user |-> Absent, isAdmin |-> Absent]
EmptyOptions == [sudo |-> Absent, confirmed |-> Absent]

\* the calls made of a tool with interceptors: execute(args) with the default
\* context and options, or as an admin with sudo and confirmation given
ChainArgs ==
    { RawObject(Some(JsString("hi")), Some(JsString("x"))),
      RawObject(Some(JsNumber("1")), Absent) }
ChainContexts ==
    { EmptyContext, [user |-> Some([id |-> "u2", role |-> "admin"]), isAdmin |-> Absent] }
ChainOptions ==
    { EmptyOptions, [sudo |-> Some(TRUE), confirmed |-> Some(TRUE)] }

\* ExoToolConfig after the merge with DEFAULT_CONFIG: hooks is the set of the
\* hook slots that hold a function, middleware the ordered interceptor list
SeqsUpTo(S, n) == UNION { [1..k -> S] : k \in 0..n }
ExoToolConfig ==
    [riskLevel : RiskLevel,
     requiresConfirmation : BOOLEAN,
     hooks : SUBSET HookNames,
     middleware : SeqsUpTo(MwKinds, MaxMw)]

\* ----------------------------------------------------- strings (as the code
\* takes them apart: Array.join, String.indexOf, String.substring)

RECURSIVE Join(_, _)
Join(parts, sep) ==
    IF parts = <<>> THEN <<>>
    ELSE IF Len(parts) = 1 THEN parts[1]
    ELSE parts[1] \o sep \o Join(Tail(parts), sep)

\* String.prototype.indexOf: the 0-based index of the first c, or -1
IndexOf(s, c) ==
    IF \E i \in 1..Len(s) : s[i] = c
    THEN (CHOOSE i \in 1..Len(s) : s[i] = c /\ \A j \in 1..(i - 1) : s[j] # c) - 1
    ELSE -1

\* String.prototype.substring(from): from is clamped to the length
SubstringFrom(s, from) ==
    IF from >= Len(s) THEN <<>> ELSE SubSeq(s, from + 1, Len(s))

\* String.prototype.substring(0, to)
SubstringTo(s, to) ==
    IF to <= 0 THEN <<>> ELSE SubSeq(s, 1, IF to > Len(s) THEN Len(s) ELSE to)

\* String.prototype.trim: the whitespace at both ends is removed
Whitespace == {" ", "\n"}

RECURSIVE TrimStart(_)
TrimStart(s) ==
    IF s # <<>> /\ Head(s) \in Whitespace THEN TrimStart(Tail(s)) ELSE s

RECURSIVE TrimEnd(_)
TrimEnd(s) ==
    IF s # <<>> /\ s[Len(s)] \in Whitespace
    THEN TrimEnd(SubSeq(s, 1, Len(s) - 1))
    ELSE s

\* (mutant) only the whitespace at the start is removed
Trim_StartOnly(s) == TrimStart(s)

Trim(s) == TrimEnd(TrimStart(s))

\* ---------------------------------------------------- ExoTool.constructor

\* the names and descriptions a tool is constructed with: undefined, or a
\* text of letters and whitespace
NameChars == {"x", " ", "\n"}
NameTexts ==
    {Absent} \cup { Some(s) : s \in UNION { [1..k -> NameChars] : k \in 0..MaxNameLen } }

\* !text || text.trim().length === 0
Blank(text) == text = Absent \/ The(text) = <<>> \/ Len(Trim(The(text))) = 0

\* new ExoTool({name, description, ...}): throws for a blank name, then for a
\* blank description; else the tool with the trimmed name and description
NewExoTool(opts) ==
    IF Blank(opts.name)
    THEN [kind |-> "throw",
          error |-> [name |-> "Error",
                     message |-> "Tool name is required and cannot be empty"]]
    ELSE IF Blank(opts.description)
    THEN [kind |-> "throw",
          error |-> [name |-> "Error",
                     message |-> "Tool description is required and cannot be empty"]]
    ELSE [kind |-> "return",
          tool |-> [name |-> Trim(The(opts.name)),
                    description |-> Trim(The(opts.description))]]

\* no constructor call under observation
NotMade == [kind |-> "none"]

\* ------------------------------------------------ the schema (zod, external)

MsgExpectedString == <<"E", "x", "p", "e", "c", "t", "e", "d", " ", "s", "t", "r">>
MsgExpectedObject == <<"E", "x", "p", "e", "c", "t", "e", "d", " ", "o", "b", "j">>
PathValue == << <<"v", "a", "l", "u", "e">> >>

\* What a schema may report.  A path is a list of keys and indices, a message
\* any text: plain, with ": " inside, with ":" inside.
IssuePaths ==
    { <<>>,
      << <<"v">> >>,
      << <<"a">>, <<"0">> >>,
      << <<"k", ":", "z">> >>,
      << <<>> >> }
IssueMessages ==
    { <<"B", "a", "d">>,
      <<"n", "o", ":", " ", "x">>,
      <<"a", ":", "b">> }
Issues == [path : IssuePaths, message : IssueMessages]

\* an input that some schema rejects with the given issues
Rejected(issues) == [type |-> "rejected", issues |-> issues]
RejectedArgs ==
    { Rejected(issues) : issues \in UNION { [1..k -> Issues] : k \in 1..MaxIssues } }

\* schema.safeParse.  For z.object({ value: z.string() }): unknown keys are
\* stripped from the parsed data; a failure lists issues {path, message}.  For
\* an input rejected by some other schema: the issues that schema reports.
SafeParse(raw) ==
    IF raw.type = "rejected"
    THEN [success |-> FALSE, data |-> Absent, issues |-> raw.issues]
    ELSE IF raw.type # "object"
    THEN [success |-> FALSE, data |-> Absent,
          issues |-> << [path |-> <<>>, message |-> MsgExpectedObject] >>]
    ELSE IF The(raw.value).type # "string"
    THEN [success |-> FALSE, data |-> Absent,
          issues |-> << [path |-> PathValue, message |-> MsgExpectedString] >>]
    ELSE [success |-> TRUE, data |-> Some([value |-> The(raw.value).val]),
          issues |-> <<>>]

\* ------------------------------------------------------- ExoTool.validate

\* one issue rendered: "path.joined: message", or the bare message at the root
IssueText(issue) ==
    LET path == Join(issue.path, <<".">>)
    IN  IF path # <<>> THEN path \o <<":", " ">> \o issue.message ELSE issue.message

validate(raw) ==
    LET parseResult == SafeParse(raw)
    IN  IF parseResult.success
        THEN [success |-> TRUE, data |-> parseResult.data, errors |-> Absent]
        ELSE [success |-> FALSE, data |-> Absent,
              errors |-> Some([i \in 1..Len(parseResult.issues) |->
                                  IssueText(parseResult.issues[i])])]

\* ------------------------------------------ the errors _executeCore throws
\* (each is the constructor call as written at the throw site)

\* one error text split back into {field, message}
FieldError(errorMsg) ==
    LET colonIndex == IndexOf(errorMsg, ":")
    IN  IF colonIndex > 0
        THEN [field |-> SubstringTo(errorMsg, colonIndex),
              message |-> SubstringFrom(errorMsg, colonIndex + 2)]
        ELSE [field |-> <<"_", "r", "o", "o", "t">>, message |-> errorMsg]

ValidationError(validationResult, raw) ==
    LET errors == IF validationResult.errors = Absent THEN <<>>
                  ELSE The(validationResult.errors)
    IN  [name |-> "ValidationError",
         toolName |-> ToolName,
         fieldErrors |-> [i \in 1..Len(errors) |-> FieldError(errors[i])],
         details |-> [args |-> raw]]

RiskViolationError(cfg, userRole, data) ==
    [name |-> "RiskViolationError",
     toolName |-> ToolName,
     requiredRole |-> "admin",
     actualRole |-> userRole,
     details |-> [args |-> data, toolName |-> ToolName, riskLevel |-> cfg.riskLevel]]

ConfirmationRequiredError(cfg, data) ==
    [name |-> "ConfirmationRequiredError",
     toolName |-> ToolName,
     pendingArgs |-> data,
     details |-> [toolName |-> ToolName, riskLevel |-> cfg.riskLevel]]

\* what user code throws: an Error instance (text is its message) or any other
\* value (text is String(value))
ThrownValues == { [isError |-> TRUE, text |-> "boom"],
                  [isError |-> FALSE, text |-> "oops"] }
HookError == [isError |-> TRUE, text |-> "hook failed"]

\* the error handed to onError: error instanceof Error ? error : new Error(String(error))
AsError(error) == IF error.isError THEN error ELSE [isError |-> TRUE, text |-> error.text]

\* (mutant) the cause is not handed on
CauseOf_Dropped(error) == Absent

\* the cause handed to ExecutionError: error instanceof Error ? error : undefined
CauseOf(error) == IF error.isError THEN Some(error) ELSE Absent

\* error instanceof Error ? error.message : "Unknown error occurred"
ErrorMessage(error) == IF error.isError THEN error.text ELSE "Unknown error occurred"

ExecutionError(error, data, elapsed) ==
    [name |-> "ExecutionError",
     message |-> <<"Execution failed for tool", ToolName, ErrorMessage(error)>>,
     cause |-> CauseOf(error),
     details |-> [args |-> data, executionTime |-> elapsed, toolName |-> ToolName]]

\* --------------------------------------------- the gates of _executeCore

\* const userRole = context.user?.role
UserRole(ctx) == IF ctx.user = Absent THEN Absent ELSE Some(The(ctx.user).role)

\* (mutant) isAdmin counts as soon as it is present, whatever its value
IsAdmin_AnyFlag(ctx) == UserRole(ctx) = Some("admin") \/ ctx.isAdmin # Absent

\* (mutant) the deprecated isAdmin flag is not consulted
IsAdmin_RoleOnly(ctx) == UserRole(ctx) = Some("admin")

\* const isAdmin = userRole === "admin" || context.isAdmin === true
IsAdmin(ctx) == UserRole(ctx) = Some("admin") \/ ctx.isAdmin = Some(TRUE)

\* const hasSudo = options.sudo === true
HasSudo(opts) == opts.sudo = Some(TRUE)

\* (mutant) every level above LOW is gated
RiskDenied_AboveLow(cfg, ctx, opts) ==
    cfg.riskLevel # "LOW" /\ ~(UserRole(ctx) = Some("admin") \/ ctx.isAdmin = Some(TRUE))
                          /\ ~(opts.sudo = Some(TRUE))

\* Step 2: riskLevel === "HIGH" and !isAdmin && !hasSudo
RiskDenied(cfg, ctx, opts) ==
    cfg.riskLevel = "HIGH" /\ ~IsAdmin(ctx) /\ ~HasSudo(opts)

\* (mutant) options.sudo waives the confirmation as well
ConfirmationDenied_SudoWaives(cfg, opts) ==
    cfg.requiresConfirmation /\ opts.confirmed # Some(TRUE) /\ opts.sudo # Some(TRUE)

\* (mutant) the confirmation gate is applied to HIGH-risk tools only
ConfirmationDenied_HighOnly(cfg, opts) ==
    cfg.requiresConfirmation /\ cfg.riskLevel = "HIGH" /\ opts.confirmed # Some(TRUE)

\* Step 3: requiresConfirmation && options.confirmed !== true
ConfirmationDenied(cfg, opts) ==
    cfg.requiresConfirmation /\ opts.confirmed # Some(TRUE)

\* (mutant) the gates are checked before the arguments are validated
GateError_ValidationLast(cfg, raw, ctx, opts) ==
    LET validationResult == validate(raw)
    IN  IF RiskDenied(cfg, ctx, opts)
        THEN Some(RiskViolationError(cfg, UserRole(ctx), validationResult.data))
        ELSE IF ConfirmationDenied(cfg, opts)
        THEN Some(ConfirmationRequiredError(cfg, validationResult.data))
        ELSE IF ~validationResult.success
        THEN Some(ValidationError(validationResult, raw))
        ELSE Absent

\* (mutant) the confirmation gate is checked before the role gate
GateError_ConfirmationFirst(cfg, raw, ctx, opts) ==
    LET validationResult == validate(raw)
    IN  IF ~validationResult.success
        THEN Some(ValidationError(validationResult, raw))
        ELSE IF ConfirmationDenied(cfg, opts)
        THEN Some(ConfirmationRequiredError(cfg, validationResult.data))
        ELSE IF RiskDenied(cfg, ctx, opts)
        THEN Some(RiskViolationError(cfg, UserRole(ctx), validationResult.data))
        ELSE Absent

\* Steps 1-3 in the order of the code: the error thrown by the first failing
\* step, or nothing when validation and both gates pass
GateError(cfg, raw, ctx, opts) ==
    LET validationResult == validate(raw)
    IN  IF ~validationResult.success
        THEN Some(ValidationError(validationResult, raw))
        ELSE IF RiskDenied(cfg, ctx, opts)
        THEN Some(RiskViolationError(cfg, UserRole(ctx), validationResult.data))
        ELSE IF ConfirmationDenied(cfg, opts)
        THEN Some(ConfirmationRequiredError(cfg, validationResult.data))
        ELSE Absent


\* ----------------------------------------------------------- user code

\* the executor of the fixture: ({ value }) => ({ value })
Executor(data) == [value |-> data.value]

\* how a call of the executor settles: it returns (or resolves to) its value,
\* or it throws (or rejects with) some value
BodyOutcomes(data) ==
    { [kind |-> "return", value |-> Executor(data)] }
        \cup { [kind |-> "throw", value |-> t] : t \in ThrownValues }

\* what a hook function does when called: returns (or resolves), throws
\* synchronously, or returns a promise that rejects
HookBehaviours == {"returns", "throws", "rejects"}

\* the result the blocking interceptor returns without calling next()
BlockedResult ==
    [success |-> FALSE, data |-> Absent, error |-> Some("Blocked"),
     metadata |-> Some([blocked |-> TRUE])]

\* the post-phase of the "tag" interceptor: the inner result, metadata replaced
Tagged(result) == [result EXCEPT !.metadata = Some([tagged |-> TRUE])]

\* Further interceptors, by what they do around next():
\*   "throw"  throws before it calls next()
\*   "catch"  awaits next() in a try and returns a result of its own when
\*            next() threw
\*   "mutate" sets args.value = "modified" on the args object it was given,
\*            then awaits next()
\*   "swap"   awaits next(otherArgs, otherContext): it hands next() another
\*            args object and another context
MoreMwKinds == {"pass", "throw", "catch", "mutate", "swap"}

\* what the "throw" interceptor throws
InterceptorError == [name |-> "InterceptorError"]

\* what the "catch" interceptor returns for the error it caught
CaughtResult(error) ==
    [success |-> FALSE, data |-> Absent, error |-> Some("caught"),
     metadata |-> Some([caught |-> error])]

\* typedArgs.value = "modified"
Mutated(raw) == [raw EXCEPT !.value = Some(JsString("modified"))]

\* what the "swap" interceptor hands to next()
SwapArgs == RawObject(Some(JsString("swapped")), Absent)
SwapContext ==
    [user |-> Some([id |-> "u2", role |-> "admin"]), isAdmin |-> Some(TRUE)]

\* -------------------------------------------------- ExoTool.safeFireHook

\* How the promise of safeFireHook settles for a configured hook: the call and
\* the await of what it returned sit in one try whose catch is empty
\* (mutant) no try/catch around the hook
safeFireHook_NoCatch(behaviour) ==
    IF behaviour = "returns" THEN "resolved" ELSE "rejected"

safeFireHook(behaviour) ==
    CASE behaviour = "returns" -> "resolved"
      [] behaviour = "throws" -> "resolved"
      [] behaviour = "rejects" -> "resolved"

\* ------------------------------------------------------ createRateLimiter
\* (src/middleware): one limiter, made with {windowMs, limit}, is the only
\* interceptor of the tools "echo" and "other"

\* const limit = options.limit ?? 10
DefaultLimit == 10
Limits == 0..MaxLimit

\* windowMs of the tests' limiter
WindowMs == 1000

\* the step of the wall clock: half a window
TickMs == WindowMs \div 2

\* the callers of the rate-limited tools: a user with an id next to a
\* deprecated userId, a user whose id is the empty string next to a userId,
\* and nobody
LimiterContexts ==
    { [user |-> Some([id |-> "u1", role |-> "guest"]), isAdmin |-> Absent,
       userId |-> Some("u2")],
      [user |-> Some([id |-> "", role |-> "guest"]), isAdmin |-> Absent,
       userId |-> Some("u2")],
      [user |-> Absent, isAdmin |-> Absent, userId |-> Absent] }

\* who calls which tool: "echo" is called by all of them, "other" by nobody
\* in particular (no user, no userId)
LimitedCalls ==
    { <<"echo", c>> : c \in LimiterContexts }
        \cup { <<"other", [user |-> Absent, isAdmin |-> Absent, userId |-> Absent]>> }

\* the tools behind the limiter: LOW risk, no hooks, middleware: [limiter]
LimitedConfigs ==
    [riskLevel : {"LOW"}, requiresConfirmation : {FALSE}, hooks : {{}},
     middleware : {<<"limit">>}]

\* JavaScript truthiness of an optional string
Truthy(opt) == opt # Absent /\ The(opt) # ""

\* context?.user?.id || context?.userId
UserIdOf(ctx) ==
    IF ctx.user # Absent /\ Truthy(Some(The(ctx.user).id))
    THEN Some(The(ctx.user).id)
    ELSE ctx.userId

\* (mutant) the key leaves the caller out
DefaultKey_ToolOnly(toolName, ctx) == toolName \o ":global"

\* userId ? `${toolName}:${userId}` : `${toolName}:global`
DefaultKey(toolName, ctx) ==
    IF Truthy(UserIdOf(ctx))
    THEN toolName \o ":" \o The(UserIdOf(ctx))
    ELSE toolName \o ":global"

\* storage.get(key)
Get(map, key) == IF key \in DOMAIN map THEN Some(map[key]) ELSE Absent

\* storage.set(key, value)
Set(map, key, value) == (key :> value) @@ map

\* entry && now < entry.resetTime
InWindow(entry, t) == entry # Absent /\ t < The(entry).resetTime

\* (mutant) the limit is compared with >
Exceeded_OffByOne(entry, t, lim) == InWindow(entry, t) /\ The(entry).count > lim

\* entry && now < entry.resetTime, and entry.count >= limit
Exceeded(entry, t, lim) == InWindow(entry, t) /\ The(entry).count >= lim

\* (mutant) a lost update: the count written back inside a window is one more
\* than a count read before the window's latest call, which is the count
\* that call left
Charged_LostUpdate(entry, t) ==
    IF InWindow(entry, t)
    THEN [count |-> The(entry).count, resetTime |-> The(entry).resetTime]
    ELSE [count |-> 1, resetTime |-> t + WindowMs]

\* (mutant) a sliding window: every call that is passed on moves resetTime
Charged_Sliding(entry, t) ==
    IF InWindow(entry, t)
    THEN [count |-> The(entry).count + 1, resetTime |-> t + WindowMs]
    ELSE [count |-> 1, resetTime |-> t + WindowMs]

\* entry.count++ inside the window, else a new entry {count: 1, resetTime}
Charged(entry, t) ==
    IF InWindow(entry, t)
    THEN [count |-> The(entry).count + 1, resetTime |-> The(entry).resetTime]
    ELSE [count |-> 1, resetTime |-> t + WindowMs]

\* Math.ceil(ms / 1000)
CeilSeconds(ms) == -((-ms) \div 1000)

\* (mutant) the refusal carries no error text
RateLimitedResult_NoError(entry, t) ==
    [success |-> FALSE, data |-> Absent, error |-> Absent,
     metadata |-> Some([rateLimited |-> TRUE])]

\* the result returned when the limit is exceeded
RateLimitedResult(entry, t) ==
    [success |-> FALSE, data |-> Absent,
     error |-> Some("Rate limit exceeded. Try again in "
                      \o ToString(CeilSeconds(entry.resetTime - t)) \o " seconds."),
     metadata |-> Some([rateLimited |-> TRUE])]

\* (history) who calls what: the tool and the caller's id, "global" without one
Caller(toolName, ctx) ==
    <<toolName,
      IF ctx.user # Absent /\ The(ctx.user).id # "" THEN The(ctx.user).id
      ELSE IF ctx.userId # Absent /\ The(ctx.userId) # "" THEN The(ctx.userId)
      ELSE "global">>

\* (history) the storage of a limiter that is given the same calls at the same
\* times and whose cleanup never runs: the same admission code on its own map
Referred(map, key, t, lim) ==
    IF Exceeded(Get(map, key), t, lim) THEN map
    ELSE Set(map, key, Charged(Get(map, key), t))

\* (history) the window of a caller: it begins with the first call at or after
\* the end of the one before and lasts windowMs
Recorded(w, who, t, passedOn) ==
    IF who \in DOMAIN w /\ t < w[who].start + WindowMs
    THEN Set(w, who, [w[who] EXCEPT !.passed = Append(@, passedOn)])
    ELSE Set(w, who, [start |-> t, passed |-> <<passedOn>>])

\* ------------------------------------------------------------- the state

vars == <<config, self, clock, pc, args, context, options, idx, startTime,
          validated, duration, settled, ret, log, bodyCalls, hookFailures,
          limit, storage, now, windows, calls, reference, made, parked, heap,
          built, emitted>>

\* the state of the rate limiter and of its clock
limiterVars == <<limit, storage, now, windows, calls, reference>>

callVars == <<args, context, options>>

NoArgs == [type |-> "none", value |-> Absent, extra |-> Absent]
Nothing == [kind |-> "none"]
Returned(result) == [kind |-> "return", result |-> result]
\* (mutant) the core hands an error back as a failed result
Thrown_AsFailedResult(error) ==
    [kind |-> "return",
     result |-> [success |-> FALSE, data |-> Absent, error |-> Some(error.name),
                 metadata |-> Absent]]
Thrown(error) == [kind |-> "throw", error |-> error]

\* no call in flight
IdleCall ==
    /\ self = NoTool
    /\ clock = 0
    /\ pc = "idle"
    /\ args = NoArgs
    /\ context = EmptyContext
    /\ options = EmptyOptions
    /\ idx = 0
    /\ startTime = 0
    /\ validated = Absent
    /\ duration = Absent
    /\ settled = Absent
    /\ ret = Nothing
    /\ log = <<>>
    /\ bodyCalls = 0
    /\ hookFailures = {}

\* the arrays that hold interceptors: DEFAULT_CONFIG.middleware, which the
\* module creates once, and the array a caller puts into config.middleware
DefaultArray == "DEFAULT_CONFIG.middleware"
CallerArray == "config.middleware"
FreshHeap == (DefaultArray :> <<>>) @@ (CallerArray :> <<>>)

\* no tool is asked for its specification
NotEmitted == [kind |-> "none"]

\* createRateLimiter has just run: const storage = new Map(); no constructor
\* call is under observation, no call is suspended, and no tool is tracked by
\* the array its config.middleware refers to
FreshLimiter ==
    /\ storage = << >>
    /\ reference = << >>
    /\ now = 0
    /\ windows = << >>
    /\ calls = 0
    /\ made = NotMade
    /\ parked = <<>>
    /\ heap = FreshHeap
    /\ built = << >>
    /\ emitted = NotEmitted

\* a tool built from any configuration without the rate limiter
Init ==
    /\ config \in ExoToolConfig
    /\ IdleCall
    /\ limit = DefaultLimit
    /\ FreshLimiter

\* ------------------------------------------------------- ExoTool.execute

\* t.execute(args, context, options): the chain is built over config.middleware
\* and started with the caller's args and context
Execute(t, a, c, o) ==
    /\ pc = "idle"
    /\ self' = t
    /\ args' = a
    /\ context' = c
    /\ options' = o
    /\ idx' = 1
    /\ pc' = "chain"
    /\ UNCHANGED <<config, clock, startTime, validated, duration, settled, ret,
                   log, bodyCalls, hookFailures>>
    /\ UNCHANGED <<limiterVars, made, parked, heap, built, emitted>>

\* middleware.reduceRight((next, mw) => link, startFn): the links of the chain
\* from the outermost to the innermost, each with its interceptor's place in
\* config.middleware; behind the last link is startFn, the core
RECURSIVE ReduceRight(_, _, _)
ReduceRight(middleware, i, next) ==
    IF i = 0 THEN next
    ELSE ReduceRight(middleware, i - 1,
                     << [at |-> i, kind |-> middleware[i]] >> \o next)

\* (mutant) reduce in place of reduceRight: the chain is nested the other way
\* round, the last interceptor outermost
RECURSIVE ReduceLeft(_, _, _)
ReduceLeft(middleware, i, next) ==
    IF i > Len(middleware) THEN next
    ELSE ReduceLeft(middleware, i + 1,
                    << [at |-> i, kind |-> middleware[i]] >> \o next)

Pipeline_Reduce(middleware) == ReduceLeft(middleware, 1, <<>>)

Pipeline(middleware) == ReduceRight(middleware, Len(middleware), <<>>)

\* (mutant) the link goes on to the next link whatever its interceptor returned
MwPre_IgnoresReturn ==
    /\ pc = "chain"
    /\ idx <= Len(Pipeline(config.middleware))
    /\ log' = Append(log, [ev |-> "enter", at |-> Pipeline(config.middleware)[idx].at])
    /\ ret' = ret
    /\ idx' = idx + 1
    /\ pc' = "chain"
    /\ UNCHANGED <<config, clock, callVars, startTime, validated, duration,
                   settled, bodyCalls, hookFailures>>
    /\ UNCHANGED <<self, limiterVars, made, parked, heap, built, emitted>>

\* (mutant) the link hands on what the interceptor gave to next()
NextCall_Forwards(own, given) == given

\* next: async () => next(pipelineArgs, pipelineContext): whatever the
\* interceptor gives to next(), the next link is called with what this link
\* was called with
NextCall(own, given) == own

\* (mutant) the link strips the unknown properties from the args object
\* before it hands it on
ArgsBelow_Stripped(kind, raw) ==
    IF kind = "mutate" THEN Mutated(raw)
    ELSE [raw EXCEPT !.extra = Absent]

\* what the next link is called with, by interceptor kind: the same object,
\* by "mutate" changed in place
ArgsBelow(kind, raw) ==
    IF kind = "mutate" THEN Mutated(raw)
    ELSE IF kind = "swap" THEN NextCall(raw, SwapArgs)
    ELSE raw

ContextBelow(kind, ctx) ==
    IF kind = "swap" THEN NextCall(ctx, SwapContext) ELSE ctx

\* (mutant) the chain turns an error thrown below into a failed result
LinkOutcome_Converts(kind, outcome) ==
    IF outcome.kind = "throw"
    THEN [kind |-> "return", result |-> CaughtResult(outcome.error)]
    ELSE outcome

\* how the promise of a link settles, given how its await of next() settled:
\* the link adds nothing to what its interceptor does ("tag" replaces the
\* metadata of a result, "catch" answers an error with a result of its own)
LinkOutcome(kind, outcome) ==
    IF outcome.kind = "return"
    THEN IF kind = "tag" THEN Returned(Tagged(outcome.result)) ELSE outcome
    ELSE IF kind = "catch" THEN Returned(CaughtResult(outcome.error))
    ELSE outcome

\* the chain reaches interceptor idx: its code runs up to its await of next()
\* (which calls the next link), to its return (the blocking interceptor) or to
\* its throw
MwPre ==
    /\ pc = "chain"
    /\ idx <= Len(Pipeline(config.middleware))
    /\ Pipeline(config.middleware)[idx].kind # "limit"
    /\ log' = Append(log, [ev |-> "enter", at |-> Pipeline(config.middleware)[idx].at])
    /\ IF Pipeline(config.middleware)[idx].kind = "block"
       THEN /\ ret' = Returned(BlockedResult)
            /\ idx' = idx - 1
            /\ pc' = "unwind"
       ELSE IF Pipeline(config.middleware)[idx].kind = "throw"
       THEN /\ ret' = Thrown(InterceptorError)
            /\ idx' = idx - 1
            /\ pc' = "unwind"
       ELSE /\ ret' = ret
            /\ idx' = idx + 1
            /\ pc' = "chain"
    /\ args' = ArgsBelow(Pipeline(config.middleware)[idx].kind, args)
    /\ context' = ContextBelow(Pipeline(config.middleware)[idx].kind, context)
    /\ UNCHANGED <<config, clock, options, startTime, validated, duration,
                   settled, bodyCalls, hookFailures>>
    /\ UNCHANGED <<self, limiterVars, made, parked, heap, built, emitted>>

\* interceptor idx resumes after its await of next(): its post-phase runs when
\* next() returned a result, its catch block (if it has one) when next() threw;
\* otherwise the thrown error passes through
MwPost ==
    /\ pc = "unwind"
    /\ idx >= 1
    /\ Pipeline(config.middleware)[idx].kind # "limit"
    /\ log' = IF ret.kind = "return"
              THEN Append(log, [ev |-> "exit",
                                at |-> Pipeline(config.middleware)[idx].at])
              ELSE IF Pipeline(config.middleware)[idx].kind = "catch"
              THEN Append(log, [ev |-> "caught",
                                at |-> Pipeline(config.middleware)[idx].at])
              ELSE log
    /\ ret' = LinkOutcome(Pipeline(config.middleware)[idx].kind, ret)
    /\ idx' = idx - 1
    /\ UNCHANGED <<config, clock, pc, callVars, startTime, validated, duration,
                   settled, bodyCalls, hookFailures>>
    /\ UNCHANGED <<self, limiterVars, made, parked, heap, built, emitted>>

\* (mutant) execute drops the metadata of the result the chain returned
Finish_DropsMetadata ==
    /\ pc = "unwind"
    /\ idx = 0
    /\ pc' = "done"
    /\ ret' = IF ret.kind = "return"
              THEN Returned([ret.result EXCEPT !.metadata = Absent])
              ELSE ret
    /\ UNCHANGED <<config, clock, callVars, idx, startTime, validated, duration,
                   settled, log, bodyCalls, hookFailures>>
    /\ UNCHANGED <<self, limiterVars, made, parked, heap, built, emitted>>

\* execute's await of the chain settles: the call returns or throws
Finish ==
    /\ pc = "unwind"
    /\ idx = 0
    /\ pc' = "done"
    /\ UNCHANGED <<config, clock, callVars, idx, startTime, validated, duration,
                   settled, ret, log, bodyCalls, hookFailures>>
    /\ UNCHANGED <<self, limiterVars, made, parked, heap, built, emitted>>

\* the call is over; the tool is ready for the next one
Reset ==
    /\ pc = "done"
    /\ pc' = "idle"
    /\ args' = NoArgs
    /\ context' = EmptyContext
    /\ options' = EmptyOptions
    /\ idx' = 0
    /\ startTime' = 0
    /\ validated' = Absent
    /\ duration' = Absent
    /\ settled' = Absent
    /\ ret' = Nothing
    /\ log' = <<>>
    /\ bodyCalls' = 0
    /\ hookFailures' = {}
    /\ clock' = 0
    /\ self' = NoTool
    /\ UNCHANGED config
    /\ UNCHANGED <<limiterVars, made, parked, heap, built, emitted>>


\* --------------------------------------------------- ExoTool._executeCore

\* (mutant) executionTime is read off the clock again when the result is built
SuccessResult_Recomputed(cfg, data, elapsed) ==
    [success |-> TRUE, data |-> Some(data), error |-> Absent,
     metadata |-> Some([executionTime |-> clock - startTime, toolName |-> ToolName,
                        riskLevel |-> cfg.riskLevel])]

\* the result object _executeCore returns on success
SuccessResult(cfg, data, elapsed) ==
    [success |-> TRUE, data |-> Some(data), error |-> Absent,
     metadata |-> Some([executionTime |-> elapsed, toolName |-> ToolName,
                        riskLevel |-> cfg.riskLevel])]

\* the log entry of a hook invocation; no entry when the slot is empty
HookEvent(cfg, hookName, payload) ==
    IF hookName \in cfg.hooks THEN << [ev |-> hookName, payload |-> payload] >> ELSE <<>>

\* how the await of safeFireHook(hookName, ...) settles: at once when the slot
\* is empty (if (!hook) return), else as safeFireHook settles it
HookOutcome(cfg, hookName, behaviour) ==
    IF hookName \notin cfg.hooks THEN "resolved" ELSE safeFireHook(behaviour)

\* the behaviours to consider for a hook slot: none of its own when empty
BehavioursOf(cfg, hookName) ==
    IF hookName \in cfg.hooks THEN HookBehaviours ELSE {"returns"}

Failed(cfg, hookName, behaviour) ==
    IF hookName \in cfg.hooks /\ behaviour # "returns"
    THEN { [hook |-> hookName, behaviour |-> behaviour] }
    ELSE {}

\* (mutant) onStart is fired on entry, before validation and the gates
CoreEvents_StartFirst(cfg, gate, data, ctx) ==
    << [ev |-> "core"] >>
    \o HookEvent(cfg, "onStart", [toolName |-> ToolName, args |-> data, context |-> ctx])

\* (mutant) onStart is fired on entry of every call, with the raw args
CoreEvents_EveryCall(cfg, gate, data, ctx) ==
    << [ev |-> "core"] >>
    \o HookEvent(cfg, "onStart",
           [toolName |-> ToolName, args |-> Some(args), context |-> ctx])

\* what the synchronous part of _executeCore does besides throwing: onStart is
\* fired (Step 4) only when Steps 1-3 have thrown nothing
CoreEvents(cfg, gate, data, ctx) ==
    IF gate # Absent
    THEN << [ev |-> "core"] >>
    ELSE << [ev |-> "core"] >>
         \o HookEvent(cfg, "onStart",
                [toolName |-> ToolName, args |-> data, context |-> ctx])

\* (mutant) safeFireHook("onStart") is called without await: the executor is
\* invoked in the same step, while the hook is still running
CoreBegin_NotAwaited ==
    /\ pc = "chain"
    /\ idx = Len(Pipeline(config.middleware)) + 1
    /\ startTime' = clock
    /\ LET validationResult == validate(args)
           gate == GateError(config, args, context, options)
       IN  /\ validated' = validationResult.data
           /\ IF gate # Absent
              THEN /\ ret' = Thrown(The(gate))
                   /\ idx' = idx - 1
                   /\ pc' = "unwind"
                   /\ bodyCalls' = bodyCalls
                   /\ log' = log \o CoreEvents(config, gate, validationResult.data, context)
              ELSE /\ ret' = ret
                   /\ idx' = idx
                   /\ pc' = "awaitBody"
                   /\ bodyCalls' = bodyCalls + 1
                   /\ log' = (log \o CoreEvents(config, gate, validationResult.data, context))
                             \o << [ev |-> "body", args |-> The(validationResult.data),
                                    context |-> context, at |-> clock] >>
    /\ UNCHANGED <<config, clock, callVars, duration, settled, hookFailures>>
    /\ UNCHANGED <<self, limiterVars, made, parked, heap, built, emitted>>

\* The chain reaches the core.  Up to its first await _executeCore reads the
\* clock, validates, checks the role gate and the confirmation gate, and either
\* throws or calls safeFireHook("onStart"), which invokes the hook.
CoreBegin ==
    /\ pc = "chain"
    /\ idx = Len(Pipeline(config.middleware)) + 1
    /\ startTime' = clock
    /\ LET validationResult == validate(args)
           gate == GateError(config, args, context, options)
       IN  /\ validated' = validationResult.data
           /\ IF gate # Absent
              THEN /\ ret' = Thrown(The(gate))
                   /\ idx' = idx - 1
                   /\ pc' = "unwind"
              ELSE /\ ret' = ret
                   /\ idx' = idx
                   /\ pc' = "awaitOnStart"
           /\ log' = log \o CoreEvents(config, gate, validationResult.data, context)
    /\ UNCHANGED <<config, clock, callVars, duration, settled, bodyCalls,
                   hookFailures>>
    /\ UNCHANGED <<self, limiterVars, made, parked, heap, built, emitted>>

\* (mutant) the executor is invoked with the args as they were passed in
OnStartSettled_RawArgs ==
    /\ pc = "awaitOnStart"
    /\ \E b \in BehavioursOf(config, "onStart") :
          /\ hookFailures' = hookFailures \cup Failed(config, "onStart", b)
          /\ IF HookOutcome(config, "onStart", b) = "resolved"
             THEN /\ bodyCalls' = bodyCalls + 1
                  /\ log' = Append(log, [ev |-> "body", args |-> args,
                                         context |-> context, at |-> clock])
                  /\ ret' = ret
                  /\ idx' = idx
                  /\ pc' = "awaitBody"
             ELSE /\ bodyCalls' = bodyCalls
                  /\ log' = log
                  /\ ret' = Thrown([name |-> "HookError", error |-> HookError])
                  /\ idx' = idx - 1
                  /\ pc' = "unwind"
    /\ UNCHANGED <<config, clock, callVars, startTime, validated, duration, settled>>
    /\ UNCHANGED <<self, limiterVars, made, parked, heap, built, emitted>>

\* The await of safeFireHook("onStart") settles; then the executor is invoked
\* with the validated data.  (Were the await to reject, _executeCore would
\* reject with the hook's error: the await is outside the try.)
OnStartSettled ==
    /\ pc = "awaitOnStart"
    /\ \E b \in BehavioursOf(config, "onStart") :
          /\ hookFailures' = hookFailures \cup Failed(config, "onStart", b)
          /\ IF HookOutcome(config, "onStart", b) = "resolved"
             THEN /\ bodyCalls' = bodyCalls + 1
                  /\ log' = Append(log, [ev |-> "body", args |-> The(validated),
                                         context |-> context, at |-> clock])
                  /\ ret' = ret
                  /\ idx' = idx
                  /\ pc' = "awaitBody"
             ELSE /\ bodyCalls' = bodyCalls
                  /\ log' = log
                  /\ ret' = Thrown([name |-> "HookError", error |-> HookError])
                  /\ idx' = idx - 1
                  /\ pc' = "unwind"
    /\ UNCHANGED <<config, clock, callVars, startTime, validated, duration, settled>>
    /\ UNCHANGED <<self, limiterVars, made, parked, heap, built, emitted>>

\* (mutant) the time is taken from the invocation of the executor, so that it
\* leaves out the time spent awaiting onStart
Elapsed_SinceBody ==
    clock - SelectSeq(log, LAMBDA e : e.ev = "body")[1].at

\* performance.now() - startTime
Elapsed == clock - startTime

\* (mutant) a retry loop: a failed body is invoked again while the tool is
\* retryable and has retries left
BodySettled_Retries ==
    /\ pc = "awaitBody"
    /\ \E out \in BodyOutcomes(The(validated)) :
          IF out.kind = "throw" /\ config.retryable /\ bodyCalls <= config.maxRetries
          THEN /\ bodyCalls' = bodyCalls + 1
               /\ UNCHANGED <<settled, duration, log, pc>>
          ELSE /\ settled' = Some(out)
               /\ duration' = Some(Elapsed)
               /\ log' = log
               /\ pc' = IF out.kind = "return" THEN "awaitOnSuccess" ELSE "awaitOnError"
               /\ bodyCalls' = bodyCalls
    /\ UNCHANGED <<config, clock, callVars, idx, startTime, validated, ret,
                   hookFailures>>
    /\ UNCHANGED <<self, limiterVars, made, parked, heap, built, emitted>>

\* The executor settles.  duration is read off the clock; on a return onSuccess
\* is fired, on a throw (the catch block) onError is fired with the error, or
\* with new Error(String(error)) when the thrown value is no Error.
BodySettled ==
    /\ pc = "awaitBody"
    /\ \E out \in BodyOutcomes(The(validated)) :
          /\ settled' = Some(out)
          /\ duration' = Some(Elapsed)
          /\ IF out.kind = "return"
             THEN /\ log' = log \o HookEvent(config, "onSuccess",
                                      [toolName |-> ToolName, result |-> out.value,
                                       duration |-> Elapsed,
                                       context |-> context])
                  /\ pc' = "awaitOnSuccess"
             ELSE /\ log' = log \o HookEvent(config, "onError",
                                      [toolName |-> ToolName,
                                       error |-> AsError(out.value),
                                       duration |-> Elapsed,
                                       context |-> context])
                  /\ pc' = "awaitOnError"
    /\ UNCHANGED <<config, clock, callVars, idx, startTime, validated, ret,
                   bodyCalls, hookFailures>>
    /\ UNCHANGED <<self, limiterVars, made, parked, heap, built, emitted>>

\* (mutant) onSuccess is called in the try without safeFireHook around it: when
\* it throws or rejects, the catch block runs as after a failed body
OnSuccessSettled_Uncaught ==
    /\ pc = "awaitOnSuccess"
    /\ \E b \in BehavioursOf(config, "onSuccess") :
          /\ hookFailures' = hookFailures \cup Failed(config, "onSuccess", b)
          /\ IF b = "returns"
             THEN /\ ret' = Returned(SuccessResult(config, The(settled).value,
                                                   The(duration)))
                  /\ UNCHANGED <<settled, duration, log>>
                  /\ idx' = idx - 1
                  /\ pc' = "unwind"
             ELSE /\ ret' = ret
                  /\ UNCHANGED <<settled, duration>>
                  /\ log' = log \o HookEvent(config, "onError",
                                      [toolName |-> ToolName, error |-> HookError,
                                       duration |-> Elapsed,
                                       context |-> context])
                  /\ idx' = idx
                  /\ pc' = "awaitOnError"
    /\ UNCHANGED <<config, clock, callVars, startTime, validated, bodyCalls>>
    /\ UNCHANGED <<self, limiterVars, made, parked, heap, built, emitted>>

\* The await of safeFireHook("onSuccess") settles and the success result is
\* returned.  (The await is inside the try: were it to reject, the catch block
\* would run with the hook's error.)
OnSuccessSettled ==
    /\ pc = "awaitOnSuccess"
    /\ \E b \in BehavioursOf(config, "onSuccess") :
          /\ hookFailures' = hookFailures \cup Failed(config, "onSuccess", b)
          /\ IF HookOutcome(config, "onSuccess", b) = "resolved"
             THEN /\ ret' = Returned(SuccessResult(config, The(settled).value,
                                                   The(duration)))
                  /\ UNCHANGED <<settled, duration, log>>
                  /\ idx' = idx - 1
                  /\ pc' = "unwind"
             ELSE /\ ret' = ret
                  /\ settled' = Some([kind |-> "throw", value |-> HookError])
                  /\ duration' = Some(Elapsed)
                  /\ log' = log \o HookEvent(config, "onError",
                                      [toolName |-> ToolName, error |-> HookError,
                                       duration |-> Elapsed,
                                       context |-> context])
                  /\ idx' = idx
                  /\ pc' = "awaitOnError"
    /\ UNCHANGED <<config, clock, callVars, startTime, validated, bodyCalls>>
    /\ UNCHANGED <<self, limiterVars, made, parked, heap, built, emitted>>

\* The await of safeFireHook("onError") settles and the caught error is thrown
\* again, wrapped in an ExecutionError.  (Were the await to reject, the hook's
\* error would leave the catch block instead.)
OnErrorSettled ==
    /\ pc = "awaitOnError"
    /\ \E b \in BehavioursOf(config, "onError") :
          /\ hookFailures' = hookFailures \cup Failed(config, "onError", b)
          /\ ret' = IF HookOutcome(config, "onError", b) = "resolved"
                    THEN Thrown(ExecutionError(The(settled).value, validated,
                                               The(duration)))
                    ELSE Thrown([name |-> "HookError", error |-> HookError])
    /\ idx' = idx - 1
    /\ pc' = "unwind"
    /\ UNCHANGED <<config, clock, callVars, startTime, validated, duration,
                   settled, log, bodyCalls>>
    /\ UNCHANGED <<self, limiterVars, made, parked, heap, built, emitted>>

\* time passes between calls and while a hook or the executor is awaited
Tick ==
    /\ clock < MaxClock
    /\ pc \in {"idle", "awaitOnStart", "awaitBody", "awaitOnSuccess", "awaitOnError"}
    /\ clock' = clock + 1
    /\ UNCHANGED <<config, pc, callVars, idx, startTime, validated, duration,
                   settled, ret, log, bodyCalls, hookFailures>>
    /\ UNCHANGED <<self, limiterVars, made, parked, heap, built, emitted>>

\* the calls a caller makes of a tool built without interceptors
CallCore ==
    \E a \in RawArgs, c \in ExoContext, o \in ExecutionOptions : Execute("echo", a, c, o)

\* the calls a caller makes of a tool built with interceptors
CallChain ==
    \E a \in ChainArgs, c \in ChainContexts, o \in ChainOptions : Execute("echo", a, c, o)

\* a tool built without interceptors (config.middleware = [])
InitCore == Init /\ config.middleware = <<>>

NextCore ==
    \/ CallCore
    \/ CoreBegin
    \/ OnStartSettled
    \/ BodySettled
    \/ OnSuccessSettled
    \/ OnErrorSettled
    \/ Finish
    \/ Reset
    \/ Tick

Spec == InitCore /\ [][NextCore]_vars

\* the tools without hooks: every risk level, with and without confirmation
InitGates == InitCore /\ config.hooks = {}

SpecGates == InitGates /\ [][NextCore]_vars

\* the tools with every set of hooks, of LOW and of HIGH risk
InitHooks ==
    InitCore /\ config.riskLevel \in {"LOW", "HIGH"} /\ ~config.requiresConfirmation

SpecHooks == InitHooks /\ [][NextCore]_vars

\* a tool built with any interceptor list up to MaxMw
NextChain ==
    \/ CallChain
    \/ MwPre
    \/ CoreBegin
    \/ OnStartSettled
    \/ BodySettled
    \/ OnSuccessSettled
    \/ OnErrorSettled
    \/ MwPost
    \/ Finish
    \/ Reset
    \/ Tick

SpecChain == Init /\ [][NextChain]_vars

\* a tool built with up to MaxMw of the further interceptors: LOW or HIGH
\* risk, no confirmation asked, onStart the only hook
MoreConfigs ==
    [riskLevel : {"LOW", "HIGH"},
     requiresConfirmation : {FALSE},
     hooks : {{"onStart"}},
     middleware : SeqsUpTo(MoreMwKinds, MaxMw)]

InitInterceptors ==
    /\ config \in MoreConfigs
    /\ IdleCall
    /\ limit = DefaultLimit
    /\ FreshLimiter

SpecInterceptors == InitInterceptors /\ [][NextChain]_vars

\* a tool whose schema rejects the input, called with such inputs
CallRejected ==
    \E a \in RejectedArgs : Execute("echo", a, EmptyContext, EmptyOptions)

InitValidate ==
    /\ config \in [riskLevel : {"LOW"}, requiresConfirmation : {FALSE},
                   hooks : {HookNames}, middleware : {<<>>}]
    /\ IdleCall
    /\ limit = DefaultLimit
    /\ FreshLimiter

NextValidate ==
    \/ CallRejected
    \/ CoreBegin
    \/ Finish
    \/ Reset

SpecValidate == InitValidate /\ [][NextValidate]_vars

\* new ExoTool({name, description, ...}) is called
Construct ==
    /\ \E n \in NameTexts, d \in NameTexts :
          made' = [kind |-> "made",
                   options |-> [name |-> n, description |-> d],
                   outcome |-> NewExoTool([name |-> n, description |-> d])]
    /\ UNCHANGED <<config, self, clock, pc, callVars, idx, startTime, validated,
                   duration, settled, ret, log, bodyCalls, hookFailures,
                   limiterVars, parked, heap, built, emitted>>

InitConstruct ==
    /\ config \in [riskLevel : {"LOW"}, requiresConfirmation : {FALSE},
                   hooks : {{}}, middleware : {<<>>}]
    /\ IdleCall
    /\ limit = DefaultLimit
    /\ FreshLimiter

NextConstruct == Construct

SpecConstruct == InitConstruct /\ [][NextConstruct]_vars

\* tools configured with every timeout, retryable and maxRetries
RetryConfigs ==
    [riskLevel : {"LOW"}, requiresConfirmation : {FALSE},
     hooks : {{}, {"onError"}}, middleware : {<<>>},
     timeout : 0..MaxTimeout, retryable : BOOLEAN, maxRetries : 0..MaxRetries]

\* the body is still running when the configured timeout has elapsed
TickPastTimeout ==
    /\ pc = "awaitBody"
    /\ config.timeout > 0
    /\ clock - startTime <= config.timeout
    /\ clock' = startTime + config.timeout + 1
    /\ UNCHANGED <<config, self, pc, callVars, idx, startTime, validated,
                   duration, settled, ret, log, bodyCalls, hookFailures,
                   limiterVars, made, parked, heap, built, emitted>>

CallRetry ==
    \E a \in ChainArgs : Execute("echo", a, EmptyContext, EmptyOptions)

InitRetry ==
    /\ config \in RetryConfigs
    /\ IdleCall
    /\ limit = DefaultLimit
    /\ FreshLimiter

NextRetry ==
    \/ CallRetry
    \/ CoreBegin
    \/ OnStartSettled
    \/ BodySettled
    \/ OnSuccessSettled
    \/ OnErrorSettled
    \/ Finish
    \/ Reset
    \/ Tick
    \/ TickPastTimeout

SpecRetry == InitRetry /\ [][NextRetry]_vars

\* ------------------------------------- the rate limiter in the chain

\* The chain reaches the limiter.  Its handler runs without suspension from the
\* key to either the return of the failed result or the call of next().
RateLimiter ==
    /\ pc = "chain"
    /\ idx <= Len(Pipeline(config.middleware))
    /\ Pipeline(config.middleware)[idx].kind = "limit"
    /\ LET key == DefaultKey(ToolName, context)
           entry == Get(storage, key)
       IN  IF Exceeded(entry, now, limit)
           THEN /\ storage' = storage
                /\ reference' = Referred(reference, key, now, limit)
                /\ ret' = Returned(RateLimitedResult(The(entry), now))
                /\ idx' = idx - 1
                /\ pc' = "unwind"
                /\ windows' = Recorded(windows, Caller(ToolName, context), now, FALSE)
                /\ log' = Append(log, [ev |-> "limiter", key |-> key,
                                       passedOn |-> FALSE,
                                       before |-> storage, after |-> storage])
           ELSE /\ storage' = Set(storage, key, Charged(entry, now))
                /\ reference' = Referred(reference, key, now, limit)
                /\ ret' = ret
                /\ idx' = idx + 1
                /\ pc' = "chain"
                /\ windows' = Recorded(windows, Caller(ToolName, context), now, TRUE)
                /\ log' = Append(log, [ev |-> "limiter", key |-> key,
                                       passedOn |-> TRUE,
                                       before |-> storage,
                                       after |-> Set(storage, key, Charged(entry, now))])
    /\ calls' = calls + 1
    /\ UNCHANGED <<config, self, clock, callVars, startTime, validated, duration,
                   settled, bodyCalls, hookFailures, limit, now, made,
                   parked, heap, built, emitted>>

\* (mutant) the limiter gives the unit back when the rest of the chain threw
LimiterSettled_Refunds ==
    /\ pc = "unwind"
    /\ idx >= 1
    /\ Pipeline(config.middleware)[idx].kind = "limit"
    /\ idx' = idx - 1
    /\ storage' = IF ret.kind = "throw"
                  THEN [storage EXCEPT ![DefaultKey(ToolName, context)].count = @ - 1]
                  ELSE storage
    /\ UNCHANGED <<config, self, clock, pc, callVars, startTime, validated,
                   duration, settled, ret, log, bodyCalls, hookFailures,
                   limit, now, windows, calls, reference, made, parked, heap,
                   built, emitted>>

\* return next(): the limiter's promise settles as the rest of the chain did
LimiterSettled ==
    /\ pc = "unwind"
    /\ idx >= 1
    /\ Pipeline(config.middleware)[idx].kind = "limit"
    /\ idx' = idx - 1
    /\ UNCHANGED <<config, self, clock, pc, callVars, startTime, validated,
                   duration, settled, ret, log, bodyCalls, hookFailures,
                   limiterVars, made, parked, heap, built, emitted>>

\* the wall clock advances between calls
NowTick ==
    /\ pc = "idle"
    /\ now < MaxNow * TickMs
    /\ now' = now + TickMs
    /\ UNCHANGED <<config, self, clock, pc, callVars, idx, startTime, validated,
                   duration, settled, ret, log, bodyCalls, hookFailures,
                   limit, storage, windows, calls, reference, made, parked, heap,
                   built, emitted>>

\* the calls made of the two tools behind the limiter
CallLimited ==
    /\ calls < MaxCalls
    /\ \E call \in LimitedCalls, a \in ChainArgs :
          Execute(call[1], a, call[2], EmptyOptions)

\* createRateLimiter({windowMs, limit}) and the two tools built with it
InitLimiter ==
    /\ config \in LimitedConfigs
    /\ IdleCall
    /\ limit \in Limits
    /\ FreshLimiter

NextLimiter ==
    \/ CallLimited
    \/ RateLimiter
    \/ CoreBegin
    \/ OnStartSettled
    \/ BodySettled
    \/ OnSuccessSettled
    \/ OnErrorSettled
    \/ LimiterSettled
    \/ Finish
    \/ Reset
    \/ NowTick

SpecLimiter == InitLimiter /\ [][NextLimiter]_vars

\* ------------------------------------------- several calls in flight
\* JavaScript runs one call at a time and changes to another only where the
\* running one awaits.  The variables of the call hold the call that runs;
\* the calls that are suspended wait in `parked`, each with the values of its
\* own parameters and locals.

\* most calls suspended at a time
MaxParked == 1

\* the parameters and locals of the call that runs (execute's and
\* _executeCore's), and where it stands
Frame ==
    [self |-> self, pc |-> pc, args |-> args, context |-> context,
     options |-> options, idx |-> idx, startTime |-> startTime,
     validated |-> validated, duration |-> duration, settled |-> settled,
     ret |-> ret, log |-> log, bodyCalls |-> bodyCalls,
     hookFailures |-> hookFailures]

\* where a call can be suspended: at the awaits of _executeCore and, on the
\* way back up, at the awaits of the links and of execute; from the call of
\* execute to the first await of the core everything runs without suspension
SuspensionPoints ==
    {"awaitOnStart", "awaitBody", "awaitOnSuccess", "awaitOnError", "unwind"}

\* (mutant) the validated data is kept in a field of the instance, which the
\* call that ran last has overwritten with its own
Resumed_InstanceField(i) ==
    [parked[i] EXCEPT !.validated = IF validated = Absent THEN @ ELSE validated]

\* what a resumed call finds: its own parameters and locals, as it left them
Resumed(i) == parked[i]

\* the continuation of a call runs on the call's own parameters and locals
Restore(frame) ==
    /\ self' = frame.self
    /\ pc' = frame.pc
    /\ args' = frame.args
    /\ context' = frame.context
    /\ options' = frame.options
    /\ idx' = frame.idx
    /\ startTime' = frame.startTime
    /\ validated' = frame.validated
    /\ duration' = frame.duration
    /\ settled' = frame.settled
    /\ ret' = frame.ret
    /\ log' = frame.log
    /\ bodyCalls' = frame.bodyCalls
    /\ hookFailures' = frame.hookFailures

\* the running call is suspended at an await and the event loop is free
Suspend ==
    /\ pc \in SuspensionPoints
    /\ Len(parked) < MaxParked
    /\ parked' = Append(parked, Frame)
    /\ self' = NoTool
    /\ pc' = "idle"
    /\ args' = NoArgs
    /\ context' = EmptyContext
    /\ options' = EmptyOptions
    /\ idx' = 0
    /\ startTime' = 0
    /\ validated' = Absent
    /\ duration' = Absent
    /\ settled' = Absent
    /\ ret' = Nothing
    /\ log' = <<>>
    /\ bodyCalls' = 0
    /\ hookFailures' = {}
    /\ UNCHANGED <<config, clock, limiterVars, made, heap, built, emitted>>

\* the event loop is free and runs the continuation of a suspended call
Resume ==
    /\ pc = "idle"
    /\ \E i \in 1..Len(parked) :
          /\ Restore(Resumed(i))
          /\ parked' = SubSeq(parked, 1, i - 1) \o SubSeq(parked, i + 1, Len(parked))
    /\ UNCHANGED <<config, clock, limiterVars, made, heap, built, emitted>>

\* the running call reaches an await and the event loop goes on with the
\* continuation of a suspended call
Switch ==
    /\ pc \in SuspensionPoints
    /\ \E i \in 1..Len(parked) :
          /\ Restore(Resumed(i))
          /\ parked' = [parked EXCEPT ![i] = Frame]
    /\ UNCHANGED <<config, clock, limiterVars, made, heap, built, emitted>>

\* the calls made while others are in flight: "echo" by nobody and by user
\* u1, with valid arguments
ConcurrentCalls ==
    { <<"echo", c>> : c \in { x \in LimiterContexts :
                                 x.user = Absent \/ The(x.user).id = "u1" } }

CallConcurrent ==
    /\ calls < MaxCalls
    /\ \E call \in ConcurrentCalls :
          Execute(call[1], RawObject(Some(JsString("hi")), Absent), call[2],
                  EmptyOptions)

\* one rate limiter before a tool of which several calls are in flight, all
\* of them made within one window (Date.now() stands still)
NextConcurrent ==
    \/ CallConcurrent
    \/ RateLimiter
    \/ CoreBegin
    \/ OnStartSettled
    \/ BodySettled
    \/ OnSuccessSettled
    \/ OnErrorSettled
    \/ LimiterSettled
    \/ Finish
    \/ Reset
    \/ Suspend
    \/ Resume
    \/ Switch

SpecConcurrent == InitLimiter /\ [][NextConcurrent]_vars

\* ---------------------------- several calls in flight, no shared interceptor
\* two tools of one configuration whose interceptors keep nothing between
\* calls; the calls: execute({value: "hi"}) of "echo", execute({value: "yo"})
\* of "other", and execute({value: 1}) of "echo", which fails validation
FlightCalls ==
    { <<"echo", RawObject(Some(JsString("hi")), Absent)>>,
      <<"other", RawObject(Some(JsString("yo")), Absent)>>,
      <<"echo", RawObject(Some(JsNumber("1")), Absent)>> }

\* all three hooks and no interceptor, or no hook and the "tag" interceptor
FlightConfigs ==
    { [riskLevel |-> "LOW", requiresConfirmation |-> FALSE, hooks |-> HookNames,
       middleware |-> <<>>],
      [riskLevel |-> "LOW", requiresConfirmation |-> FALSE, hooks |-> {},
       middleware |-> <<"tag">>] }

CallInFlight ==
    \E call \in FlightCalls : Execute(call[1], call[2], EmptyContext, EmptyOptions)

InitInFlight ==
    /\ config \in FlightConfigs
    /\ IdleCall
    /\ limit = DefaultLimit
    /\ FreshLimiter

NextInFlight ==
    \/ CallInFlight
    \/ MwPre
    \/ CoreBegin
    \/ OnStartSettled
    \/ BodySettled
    \/ OnSuccessSettled
    \/ OnErrorSettled
    \/ MwPost
    \/ Finish
    \/ Reset
    \/ Suspend
    \/ Resume
    \/ Switch

SpecInFlight == InitInFlight /\ [][NextInFlight]_vars

\* ----------------------------- the whole pipeline: limiter, links, core
\* tools with all three hooks whose chain is the rate limiter alone or the
\* rate limiter followed by an interceptor of the caller's
PipelineConfigs ==
    [riskLevel : {"LOW", "HIGH"}, requiresConfirmation : {FALSE},
     hooks : {HookNames},
     middleware : { <<"limit">>, <<"limit", "pass">>, <<"limit", "mutate">> }]

InitPipeline ==
    /\ config \in PipelineConfigs
    /\ IdleCall
    /\ limit \in Limits
    /\ FreshLimiter

NextPipeline ==
    \/ CallLimited
    \/ RateLimiter
    \/ MwPre
    \/ CoreBegin
    \/ OnStartSettled
    \/ BodySettled
    \/ OnSuccessSettled
    \/ OnErrorSettled
    \/ MwPost
    \/ LimiterSettled
    \/ Finish
    \/ Reset

SpecPipeline == InitPipeline /\ [][NextPipeline]_vars

\* ------------------------------------- whose array is config.middleware
\* new ExoTool({..., config}) sets this.config = {...DEFAULT_CONFIG, ...config},
\* a shallow merge: this.config.middleware is the very array the caller put
\* into config.middleware, or DEFAULT_CONFIG.middleware when the caller gave
\* none; execute reads this.config.middleware anew at every call.

\* the interceptors a caller pushes onto an array
PushedKinds == {"pass", "tag"}

\* {...DEFAULT_CONFIG, ...config}.middleware, as a reference
MergedMiddleware(given) ==
    IF given = Absent THEN DefaultArray ELSE The(given)

\* new ExoTool({name: t, ..., config: {middleware: given}}), or without
\* config.middleware
NewTool ==
    /\ pc = "idle"
    /\ \E t \in ToolNames \ DOMAIN built, given \in {Absent, Some(CallerArray)} :
          built' = Set(built, t,
                       [ref |-> MergedMiddleware(given),
                        registered |-> heap[MergedMiddleware(given)]])
    /\ UNCHANGED <<config, self, clock, pc, callVars, idx, startTime, validated,
                   duration, settled, ret, log, bodyCalls, hookFailures,
                   limiterVars, made, parked, heap, emitted>>

\* the caller pushes an interceptor onto the array it passed, or will pass, in
\* config.middleware
CallerPush ==
    /\ pc = "idle"
    /\ Len(heap[CallerArray]) < MaxMw
    /\ \E kind \in PushedKinds :
          heap' = [heap EXCEPT ![CallerArray] = Append(@, kind)]
    /\ UNCHANGED <<config, self, clock, pc, callVars, idx, startTime, validated,
                   duration, settled, ret, log, bodyCalls, hookFailures,
                   limiterVars, made, parked, built, emitted>>

\* tool.config.middleware.push(interceptor) on a tool that was built
ConfigPush ==
    /\ pc = "idle"
    /\ \E t \in DOMAIN built, kind \in PushedKinds :
          /\ Len(heap[built[t].ref]) < MaxMw
          /\ heap' = [heap EXCEPT ![built[t].ref] = Append(@, kind)]
    /\ UNCHANGED <<config, self, clock, pc, callVars, idx, startTime, validated,
                   duration, settled, ret, log, bodyCalls, hookFailures,
                   limiterVars, made, parked, built, emitted>>

\* t.execute({value: "hi"}) of a tool that was built: const middleware =
\* this.config.middleware || [] is what the array holds at this call, and the
\* chain is built over it
ExecuteBuilt ==
    /\ pc = "idle"
    /\ \E t \in DOMAIN built :
          /\ self' = t
          /\ config' = [config EXCEPT !.middleware = heap[built[t].ref]]
    /\ args' = RawObject(Some(JsString("hi")), Absent)
    /\ context' = EmptyContext
    /\ options' = EmptyOptions
    /\ idx' = 1
    /\ pc' = "chain"
    /\ UNCHANGED <<clock, startTime, validated, duration, settled, ret,
                   log, bodyCalls, hookFailures>>
    /\ UNCHANGED <<limiterVars, made, parked, heap, built, emitted>>

InitRegistration ==
    /\ config \in [riskLevel : {"LOW"}, requiresConfirmation : {FALSE},
                   hooks : {{}}, middleware : {<<>>}]
    /\ IdleCall
    /\ limit = DefaultLimit
    /\ FreshLimiter

NextRegistration ==
    \/ NewTool
    \/ CallerPush
    \/ ConfigPush
    \/ ExecuteBuilt
    \/ MwPre
    \/ CoreBegin
    \/ OnStartSettled
    \/ BodySettled
    \/ OnSuccessSettled
    \/ OnErrorSettled
    \/ MwPost
    \/ Finish
    \/ Reset

SpecRegistration == InitRegistration /\ [][NextRegistration]_vars

\* ------------------------------------------------ getOpenAISpec, strict mode

\* the deepest nesting of the JSON schemas tools are built from
MaxSchemaDepth == 3

\* a node of a JSON schema as zodToJsonSchema writes it; a key the node does
\* not have is Absent.  properties maps each property name to its node,
\* required is the set of the names listed, items is one node or, for a
\* tuple, the list of the nodes of its positions, anyOf the list of the
\* alternatives
SchemaNode(type, properties, required, additionalProperties, items, anyOf) ==
    [type |-> type, properties |-> properties, required |-> required,
     additionalProperties |-> additionalProperties, items |-> items,
     anyOf |-> anyOf]

\* z.string() and the "null" alternative of .nullable()
StringNode == SchemaNode(Some("string"), Absent, Absent, Absent, Absent, Absent)
NullNode == SchemaNode(Some("null"), Absent, Absent, Absent, Absent, Absent)

\* z.object({a: n.optional()}).passthrough(): nothing is required and other
\* properties are allowed
LooseObject(n) ==
    SchemaNode(Some("object"), Some([a |-> n]), Absent, Some(TRUE), Absent, Absent)

\* z.object({a: n.optional(), b: z.string()}): only b is required
PartialObject(n) ==
    SchemaNode(Some("object"), Some([a |-> n, b |-> StringNode]), Some({"b"}),
               Some(FALSE), Absent, Absent)

\* z.array(n): items is the schema of every element
ArrayOf(n) == SchemaNode(Some("array"), Absent, Absent, Absent, Some(n), Absent)

\* z.tuple([n]): items is the array of the schemas of the positions
TupleItems(nodes) == [tuple |-> nodes]
TupleOf(n) ==
    SchemaNode(Some("array"), Absent, Absent, Absent, Some(TupleItems(<<n>>)),
               Absent)

\* n.nullable() and z.union([n, z.null()]): the alternatives under anyOf
NullableOf(n) ==
    SchemaNode(Absent, Absent, Absent, Absent, Absent, Some(<<n, NullNode>>))

\* the schemas nested at most depth deep
RECURSIVE SchemaNodes(_)
SchemaNodes(depth) ==
    IF depth = 0 THEN {StringNode}
    ELSE LET below == SchemaNodes(depth - 1)
         IN  {StringNode}
             \cup {LooseObject(n) : n \in below}
             \cup {PartialObject(n) : n \in below}
             \cup {ArrayOf(n) : n \in below}
             \cup {TupleOf(n) : n \in below}
             \cup {NullableOf(n) : n \in below}

\* the schema of a tool is a z.object
ToolSchemas == {s \in SchemaNodes(MaxSchemaDepth) : s.type = Some("object")}

\* zodToJsonSchema(schema, {name, $refStrategy: "none"}): the schema sits
\* under definitions[name], next to $ref and $schema
ZodToJsonSchema(name, schema) ==
    [ref |-> <<"#/definitions/", name>>, definitions |-> (name :> schema),
     schema |-> "http://json-schema.org/draft-07/schema#"]

\* an array spread into an object: its positions become the keys "0", "1", ...
\* and it is an array no more
SpreadArray(nodes) == [spread |-> nodes]

IsTupleItems(value) == "tuple" \in DOMAIN value

\* applyStrictModeTransformations(schema): a copy of the node; an object node
\* gets additionalProperties false and, when it has properties, required set
\* to all their names and every property transformed in turn; an array node
\* gets its items transformed.  Nothing else of the node is looked at.  A
\* tuple's items is an array: typeof says "object", the copy { ...schema }
\* spreads it, and the copy has no type, so that it is returned as it is
RECURSIVE applyStrictModeTransformations(_)
applyStrictModeTransformations(schema) ==
    IF IsTupleItems(schema) THEN SpreadArray(schema.tuple)
    ELSE
    LET closed ==
            IF schema.type = Some("object")
            THEN [schema EXCEPT !.additionalProperties = Some(FALSE)]
            ELSE schema
        withProperties ==
            IF closed.type = Some("object") /\ closed.properties # Absent
            THEN LET properties == The(closed.properties)
                 IN  [closed EXCEPT
                        !.required = Some(DOMAIN properties),
                        !.properties =
                            Some([key \in DOMAIN properties |->
                                    applyStrictModeTransformations(properties[key])])]
            ELSE closed
    IN  IF withProperties.type = Some("array") /\ withProperties.items # Absent
        THEN [withProperties EXCEPT
                !.items = Some(applyStrictModeTransformations(The(withProperties.items)))]
        ELSE withProperties

\* getOpenAISpec(options): the tool's schema is taken out of definitions[name]
\* ({} when it is not there), $schema is dropped, strict mode transforms the
\* parameters and adds strict: true
getOpenAISpec(name, jsonSchema, strict) ==
    LET cleanParameters ==
            IF name \in DOMAIN jsonSchema.definitions
            THEN jsonSchema.definitions[name]
            ELSE SchemaNode(Absent, Absent, Absent, Absent, Absent, Absent)
        finalParameters ==
            IF strict THEN applyStrictModeTransformations(cleanParameters)
            ELSE cleanParameters
    IN  [type |-> "function",
         function |-> [name |-> name, parameters |-> finalParameters,
                       strict |-> IF strict THEN Some(TRUE) ELSE Absent]]

\* a tool of some schema, not yet asked for its specification
SpecTool(schema) ==
    [kind |-> "tool", name |-> "echo",
     jsonSchema |-> ZodToJsonSchema("echo", schema),
     strict |-> Absent, spec |-> Absent]

\* tool.getOpenAISpec({strict}) is called and returns
GetOpenAISpec ==
    /\ emitted.kind = "tool"
    /\ \E strict \in BOOLEAN :
         emitted' = [emitted EXCEPT
                       !.strict = Some(strict),
                       !.spec = Some(getOpenAISpec(emitted.name,
                                                   emitted.jsonSchema, strict))]
    /\ UNCHANGED <<config, self, clock, pc, callVars, idx, startTime, validated,
                   duration, settled, ret, log, bodyCalls, hookFailures,
                   limiterVars, made, parked, heap, built>>

InitStrict ==
    /\ config \in [riskLevel : {"LOW"}, requiresConfirmation : {FALSE},
                   hooks : {{}}, middleware : {<<>>}]
    /\ IdleCall
    /\ limit = DefaultLimit
    /\ storage = << >>
    /\ reference = << >>
    /\ now = 0
    /\ windows = << >>
    /\ calls = 0
    /\ made = NotMade
    /\ parked = <<>>
    /\ heap = FreshHeap
    /\ built = << >>
    /\ emitted \in {SpecTool(schema) : schema \in ToolSchemas}

NextStrict == GetOpenAISpec

SpecStrict == InitStrict /\ [][NextStrict]_vars

\* ------------------------------------- the limiter and what fails behind it

\* tools whose first interceptor is the rate limiter and whose calls can fail
\* behind it at every step: validation, the role gate, the confirmation gate,
\* the body, or an interceptor that returns without calling next().  All calls
\* fall into one window of the limiter
ChargedConfigs ==
    [riskLevel : {"LOW", "HIGH"}, requiresConfirmation : BOOLEAN, hooks : {{}},
     middleware : { <<"limit">>, <<"limit", "pass", "block">> }]

InitCharged ==
    /\ config \in ChargedConfigs
    /\ IdleCall
    /\ limit \in Limits
    /\ FreshLimiter

NextCharged ==
    \/ CallLimited
    \/ RateLimiter
    \/ MwPre
    \/ CoreBegin
    \/ OnStartSettled
    \/ BodySettled
    \/ OnSuccessSettled
    \/ OnErrorSettled
    \/ MwPost
    \/ LimiterSettled
    \/ Finish
    \/ Reset

SpecCharged == InitCharged /\ [][NextCharged]_vars

\* ------------------------------------------- the limiter's cleanup interval

\* (mutant) the cleanup deletes the entries of windows still in course
Expired_Eager(entry, t) == t > entry.resetTime - WindowMs

\* now > entry.resetTime
Expired(entry, t) == t > entry.resetTime

\* for (const [key, entry] of storage.entries()): delete the expired entries
Swept(map, t) ==
    [key \in { k \in DOMAIN map : ~Expired(map[k], t) } |-> map[key]]

\* the callback of setInterval(..., windowMs) runs: it is a task of its own, so
\* it runs while no call is running, i.e. between calls or while a call is
\* suspended at an await; when the timer fires relative to the calls is not
\* fixed
Cleanup ==
    /\ pc \in {"idle"} \cup SuspensionPoints
    /\ storage' = Swept(storage, now)
    /\ UNCHANGED <<config, self, clock, pc, callVars, idx, startTime, validated,
                   duration, settled, ret, log, bodyCalls, hookFailures,
                   limit, now, windows, calls, reference, made, parked, heap,
                   built, emitted>>

\* the wall clock advances while a call is suspended at an await
NowTickInFlight ==
    /\ pc \in SuspensionPoints
    /\ now < MaxNow * TickMs
    /\ now' = now + TickMs
    /\ UNCHANGED <<config, self, clock, pc, callVars, idx, startTime, validated,
                   duration, settled, ret, log, bodyCalls, hookFailures,
                   limit, storage, windows, calls, reference, made, parked, heap,
                   built, emitted>>

NextCleanup ==
    \/ CallLimited
    \/ RateLimiter
    \/ CoreBegin
    \/ OnStartSettled
    \/ BodySettled
    \/ OnSuccessSettled
    \/ OnErrorSettled
    \/ LimiterSettled
    \/ Finish
    \/ Reset
    \/ NowTick
    \/ NowTickInFlight
    \/ Cleanup

SpecCleanup == InitLimiter /\ [][NextCleanup]_vars

\* ================================================================ claims

\* the call in flight has returned or thrown
Done == pc = "done"

\* the call threw an error of the given kind
Threw(errorName) == ret.kind = "throw" /\ ret.error.name = errorName

\* the caller's credentials, read off the call's context and options
CallerRoleIsAdmin == context.user # Absent /\ The(context.user).role = "admin"
CallerFlagIsAdmin == context.isAdmin # Absent /\ The(context.isAdmin) = TRUE
CallerHasSudo == options.sudo # Absent /\ The(options.sudo) = TRUE
CallerConfirmed == options.confirmed # Absent /\ The(options.confirmed) = TRUE
CallerUnprivileged == ~CallerRoleIsAdmin /\ ~CallerFlagIsAdmin /\ ~CallerHasSudo

\* the call's args conform to the schema
ArgsValid == SafeParse(args).success

\* the events of the log that are invocations of a hook
HookEventsIn(l) == SelectSeq(l, LAMBDA e : e.ev \in HookNames)

\* C1 as stated: a finished call of a HIGH-risk tool by a caller who is not
\* admin by role, not admin by flag and has no sudo has thrown
\* RiskViolationError without invoking the body, whatever the args.
C1_AsStated ==
    (Done /\ config.riskLevel = "HIGH" /\ CallerUnprivileged)
        => (Threw("RiskViolationError") /\ bodyCalls = 0)

\* C1 (amended): a finished call of a HIGH-risk tool by such a caller has thrown
\* RiskViolationError when its args pass validation and ValidationError when
\* they do not; in both cases the body was invoked zero times.
C1_HighRiskDenied ==
    (Done /\ config.riskLevel = "HIGH" /\ CallerUnprivileged)
        => /\ bodyCalls = 0
           /\ ArgsValid => Threw("RiskViolationError")
           /\ ~ArgsValid => Threw("ValidationError")

\* C1 witness: a guest with isAdmin = false and sudo = false was denied
C1_Witness ==
    /\ Done /\ config.riskLevel = "HIGH" /\ ArgsValid
    /\ context.user # Absent /\ The(context.user).role = "guest"
    /\ context.isAdmin = Some(FALSE) /\ options.sudo = Some(FALSE)
    /\ Threw("RiskViolationError") /\ bodyCalls = 0

\* C2: a call of a tool whose riskLevel is LOW or MEDIUM never throws
\* RiskViolationError, whatever the args, the context and the options.
C2_NoRiskViolationBelowHigh ==
    config.riskLevel \in {"LOW", "MEDIUM"} => ~Threw("RiskViolationError")

\* C2 witness: a MEDIUM-risk call with no user, no flag and no sudo went through
C2_Witness ==
    /\ Done /\ config.riskLevel = "MEDIUM" /\ ~config.requiresConfirmation
    /\ context = EmptyContext /\ options.sudo = Absent
    /\ ret.kind = "return" /\ bodyCalls = 1

\* C3: a call of a HIGH-risk tool by a caller with role "admin", or with
\* isAdmin = true, or with sudo = true never throws RiskViolationError.
C3_EachCredentialSuffices ==
    (config.riskLevel = "HIGH"
        /\ (CallerRoleIsAdmin \/ CallerFlagIsAdmin \/ CallerHasSudo))
        => ~Threw("RiskViolationError")

\* C3 witness: the isAdmin flag alone (a guest, no sudo) passed the role gate
\* of a HIGH-risk tool and the body ran
C3_Witness ==
    /\ Done /\ config.riskLevel = "HIGH"
    /\ ~CallerRoleIsAdmin /\ CallerFlagIsAdmin /\ ~CallerHasSudo
    /\ context.user # Absent
    /\ ret.kind = "return" /\ bodyCalls = 1

\* the role gate denies the call (stated from the call's inputs)
RoleGateDenies == config.riskLevel = "HIGH" /\ CallerUnprivileged

\* C4 as stated: a finished call of a tool with requiresConfirmation and
\* without options.confirmed = true has thrown ConfirmationRequiredError (or
\* RiskViolationError when the role gate denies it) with zero body invocations.
C4_AsStated ==
    (Done /\ config.requiresConfirmation /\ ~CallerConfirmed)
        => /\ bodyCalls = 0
           /\ IF RoleGateDenies THEN Threw("RiskViolationError")
              ELSE Threw("ConfirmationRequiredError")

\* C4 (amended): a finished call of a tool with requiresConfirmation and
\* without options.confirmed = true, whose args pass validation, has thrown
\* ConfirmationRequiredError at every risk level when the role gate passes and
\* RiskViolationError when the role gate denies it; a call whose args fail
\* validation has thrown ValidationError; the body was invoked zero times.
C4_ConfirmationRequired ==
    (Done /\ config.requiresConfirmation /\ ~CallerConfirmed)
        => /\ bodyCalls = 0
           /\ (ArgsValid /\ ~RoleGateDenies) => Threw("ConfirmationRequiredError")
           /\ (ArgsValid /\ RoleGateDenies) => Threw("RiskViolationError")
           /\ ~ArgsValid => Threw("ValidationError")

\* C4 witness: a LOW-risk tool asked for confirmation (confirmed = false)
C4_Witness ==
    /\ Done /\ config.requiresConfirmation /\ config.riskLevel = "LOW"
    /\ options.confirmed = Some(FALSE) /\ ArgsValid
    /\ Threw("ConfirmationRequiredError") /\ bodyCalls = 0


\* the events of the log that belong to the chain: interceptors entered and
\* left, the core reached
ChainEvents(l) == SelectSeq(l, LAMBDA e : e.ev \in {"enter", "core", "exit"})

\* m1-enter, ..., mn-enter, core, mn-exit, ..., m1-exit
OnionOrder(n) ==
    [i \in 1..n |-> [ev |-> "enter", at |-> i]]
        \o << [ev |-> "core"] >>
        \o [i \in 1..n |-> [ev |-> "exit", at |-> n + 1 - i]]

IsPrefix(s, t) == Len(s) <= Len(t) /\ SubSeq(t, 1, Len(s)) = s

\* every interceptor of the list awaits next() exactly once
AllAwaitNext == \A i \in 1..Len(config.middleware) : config.middleware[i] # "block"

\* C5: with interceptors that each await next() once, the chain events of a call
\* always form a prefix of m1-enter, ..., mn-enter, core, mn-exit, ..., m1-exit,
\* and a call that has returned a successful result has produced all of it.
C5_OnionOrder ==
    AllAwaitNext =>
        /\ IsPrefix(ChainEvents(log), OnionOrder(Len(config.middleware)))
        /\ (Done /\ ret.kind = "return" /\ ret.result.success)
              => ChainEvents(log) = OnionOrder(Len(config.middleware))

\* C5 witness: a successful call through two interceptors, in onion order
C5_Witness ==
    /\ Done /\ config.middleware = <<"pass", "tag">>
    /\ ret.kind = "return" /\ ret.result.success
    /\ ChainEvents(log) = << [ev |-> "enter", at |-> 1], [ev |-> "enter", at |-> 2],
                             [ev |-> "core"],
                             [ev |-> "exit", at |-> 2], [ev |-> "exit", at |-> 1] >>

\* the places of the interceptors that return without calling next()
Blockers == { i \in 1..Len(config.middleware) : config.middleware[i] = "block" }
FirstBlocker == CHOOSE k \in Blockers : \A j \in Blockers : k <= j

\* C6: when the list holds an interceptor m_k that returns without calling
\* next(), a call never runs an interceptor after m_k nor the core (no
\* validation, no hook, no body), and when all interceptors before m_k hand
\* next()'s result on unchanged, the call returns exactly m_k's result.
C6_ShortCircuit ==
    Blockers # {} =>
        /\ bodyCalls = 0
        /\ validated = Absent
        /\ \A i \in 1..Len(log) :
              log[i].ev \in {"enter", "exit"} /\ log[i].at <= FirstBlocker
        /\ (Done /\ \A j \in 1..(FirstBlocker - 1) : config.middleware[j] = "pass")
              => ret = Returned([success |-> FALSE, data |-> Absent,
                                 error |-> Some("Blocked"),
                                 metadata |-> Some([blocked |-> TRUE])])

\* C6 witness: the second interceptor blocked a call that the core would have
\* let through to the body; the first handed the blocked result on
C6_Witness ==
    /\ Done /\ config.middleware = <<"pass", "block">>
    /\ ArgsValid /\ config.riskLevel = "LOW" /\ ~config.requiresConfirmation
    /\ config.hooks = HookNames
    /\ ret.kind = "return" /\ ret.result.error = Some("Blocked")
    /\ bodyCalls = 0
    /\ log = << [ev |-> "enter", at |-> 1], [ev |-> "enter", at |-> 2],
                [ev |-> "exit", at |-> 1] >>

\* what the call comes to when no hook is configured: the gate error, or what
\* the body's outcome and the measured duration make of it
OutcomeWithoutHooks ==
    LET gate == GateError(config, args, context, options)
    IN  IF gate # Absent THEN Thrown(The(gate))
        ELSE IF The(settled).kind = "return"
        THEN Returned(SuccessResult(config, The(settled).value, The(duration)))
        ELSE Thrown(ExecutionError(The(settled).value, validated, The(duration)))

\* C7: whatever the hooks did (returned, threw, rejected), a finished call has
\* the outcome it has with no hook configured: what it wraps or returns is the
\* body's own outcome, and the hook's error is neither thrown nor wrapped.
C7_HookIsolation ==
    Done =>
        /\ ~Threw("HookError")
        /\ settled # Absent => The(settled) \in BodyOutcomes(The(validated))
        /\ ret = OutcomeWithoutHooks

\* C7 witness: onStart threw, onSuccess rejected, and the call returned success
C7_Witness ==
    /\ Done
    /\ [hook |-> "onStart", behaviour |-> "throws"] \in hookFailures
    /\ [hook |-> "onSuccess", behaviour |-> "rejects"] \in hookFailures
    /\ ret.kind = "return" /\ ret.result.success
    /\ ret.result.data = Some([value |-> "hi"])

GateErrorNames == {"ValidationError", "RiskViolationError", "ConfirmationRequiredError"}

BodyThrew == settled # Absent /\ The(settled).kind = "throw"
BodyReturned == settled # Absent /\ The(settled).kind = "return"
OnErrorEvents == SelectSeq(log, LAMBDA e : e.ev = "onError")
OnSuccessEvents == SelectSeq(log, LAMBDA e : e.ev = "onSuccess")

\* C9 as stated: when the body throws any value, onError (if configured) is
\* invoked exactly once with that value and the elapsed duration, nothing is
\* thrown while it is awaited, and the call throws an ExecutionError whose
\* cause is the thrown value and whose payload holds tool name and duration.
C9_AsStated ==
    /\ pc = "awaitOnError" => ret = Nothing
    /\ (Done /\ BodyThrew) =>
          /\ Threw("ExecutionError")
          /\ ret.error.cause = Some(The(settled).value)
          /\ ret.error.details.toolName = ToolName
          /\ ret.error.details.executionTime = The(duration)
          /\ "onError" \in config.hooks =>
                /\ Len(OnErrorEvents) = 1
                /\ OnErrorEvents[1].payload.error = The(settled).value
                /\ OnErrorEvents[1].payload.duration = The(duration)

\* C9 (amended): as above for a thrown Error instance; when the thrown value is
\* not an Error instance, onError receives new Error(String(value)) and the
\* ExecutionError has no cause.
C9_BodyFailure ==
    /\ pc = "awaitOnError" => ret = Nothing
    /\ (Done /\ BodyThrew) =>
          /\ Threw("ExecutionError")
          /\ ret.error.cause = IF The(settled).value.isError
                               THEN Some(The(settled).value) ELSE Absent
          /\ ret.error.details.toolName = ToolName
          /\ ret.error.details.executionTime = The(duration)
          /\ "onError" \notin config.hooks => Len(OnErrorEvents) = 0
          /\ "onError" \in config.hooks =>
                /\ Len(OnErrorEvents) = 1
                /\ OnErrorEvents[1].payload.error =
                      IF The(settled).value.isError THEN The(settled).value
                      ELSE [isError |-> TRUE, text |-> The(settled).value.text]
                /\ OnErrorEvents[1].payload.duration = The(duration)

\* C9 witness: the body threw the string "oops" after one tick; onError was
\* invoked once with new Error("oops"), then the call threw an ExecutionError
\* without cause, with the tool name and 1 as its executionTime
C9_Witness ==
    /\ Done /\ BodyThrew /\ The(settled).value = [isError |-> FALSE, text |-> "oops"]
    /\ "onError" \in config.hooks /\ Len(OnErrorEvents) = 1
    /\ OnErrorEvents[1].payload.error = [isError |-> TRUE, text |-> "oops"]
    /\ Threw("ExecutionError")
    /\ ret.error.cause = Absent
    /\ ret.error.details.toolName = "echo"
    /\ ret.error.details.executionTime = 1

\* C10: a call whose body returned d has returned {success: true, data: d,
\* metadata: {executionTime, toolName, riskLevel}} with no error, with the
\* tool's own name and risk level; onSuccess (if configured) was invoked once
\* before, with d and with a duration equal to executionTime.
C10_SuccessResult ==
    /\ (ret.kind = "return") => BodyReturned
    /\ (Done /\ BodyReturned) =>
          /\ ret.kind = "return"
          /\ ret.result.success
          /\ ret.result.data = Some(The(settled).value)
          /\ ret.result.error = Absent
          /\ ret.result.metadata =
                Some([executionTime |-> The(duration), toolName |-> ToolName,
                      riskLevel |-> config.riskLevel])
          /\ "onSuccess" \in config.hooks =>
                /\ Len(OnSuccessEvents) = 1
                /\ OnSuccessEvents[1].payload.result = The(ret.result.data)
                /\ OnSuccessEvents[1].payload.duration
                      = The(ret.result.metadata).executionTime

\* C10 witness: echo of {value: "hi"} returned after the body took one tick
C10_Witness ==
    /\ Done /\ "onSuccess" \in config.hooks /\ config.riskLevel = "MEDIUM"
    /\ ret = Returned([success |-> TRUE, data |-> Some([value |-> "hi"]),
                       error |-> Absent,
                       metadata |-> Some([executionTime |-> 1, toolName |-> "echo",
                                          riskLevel |-> "MEDIUM"])])

\* the errors _executeCore throws
CoreErrorNames ==
    {"ValidationError", "RiskViolationError", "ConfirmationRequiredError",
     "ExecutionError"}

\* C11: what comes out of the core is a result with success = true or one of
\* ValidationError, RiskViolationError, ConfirmationRequiredError and
\* ExecutionError, thrown; so a finished call of a tool without interceptors
\* has returned success or thrown one of the four, and a returned result with
\* success = false is met only where an interceptor produced it.
C11_TwoFailureChannels ==
    /\ Blockers = {} =>
          \/ ret = Nothing
          \/ ret.kind = "return" /\ ret.result.success
          \/ ret.kind = "throw" /\ ret.error.name \in CoreErrorNames
    /\ (Done /\ config.middleware = <<>>) =>
          \/ ret.kind = "return" /\ ret.result.success
          \/ ret.kind = "throw" /\ ret.error.name \in CoreErrorNames
    /\ (ret.kind = "return" /\ ~ret.result.success) => Blockers # {}

\* C11 witness: a tool without interceptors whose body failed has thrown, and
\* returned nothing
C11_Witness ==
    /\ Done /\ config.middleware = <<>> /\ BodyThrew
    /\ ret.kind = "throw" /\ ret.error.name = "ExecutionError"

\* the limiter's entries in the log of the call in flight
LimiterEvents == SelectSeq(log, LAMBDA e : e.ev = "limiter")

\* the result is the limiter's refusal: success false, no data, an error text
\* that starts with "Rate limit exceeded", metadata {rateLimited: true}
IsRateLimited(result) ==
    /\ ~result.success
    /\ result.data = Absent
    /\ \E n \in 0..(MaxNow + 1) :
          result.error = Some("Rate limit exceeded" \o ". Try again in "
                                \o ToString(n) \o " seconds.")
    /\ result.metadata = Some([rateLimited |-> TRUE])

\* C12: with limit = N >= 1, of the calls made under one key within one window
\* the first N are passed on to next() and every further one is not; a call
\* that is not passed on returns {success: false, error "Rate limit exceeded
\* ...", metadata {rateLimited: true}}, reaches neither the core nor the body,
\* and leaves the storage (counter and reset time) as it was.
C12_Admission ==
    limit >= 1 =>
        /\ \A who \in DOMAIN windows :
              \A i \in 1..Len(windows[who].passed) :
                  windows[who].passed[i] <=> (i <= limit)
        /\ \A i \in 1..Len(LimiterEvents) :
              ~LimiterEvents[i].passedOn =>
                  /\ LimiterEvents[i].after = LimiterEvents[i].before
                  /\ ret.kind = "return" /\ IsRateLimited(ret.result)
                  /\ bodyCalls = 0
                  /\ validated = Absent
                  /\ \A j \in 1..Len(log) : log[j].ev \notin {"core", "body"}

\* C12 witness: limit 2; two calls of "echo" by nobody were passed on, the
\* third, in the same window, was refused and the entry still counts 2
C12_Witness ==
    /\ Done /\ limit = 2 /\ self = "echo"
    /\ <<"echo", "global">> \in DOMAIN windows
    /\ windows[<<"echo", "global">>].passed = <<TRUE, TRUE, FALSE>>
    /\ ret.kind = "return" /\ ~ret.result.success
    /\ ret.result.metadata = Some([rateLimited |-> TRUE])
    /\ bodyCalls = 0
    /\ storage["echo:global"].count = 2

\* how many calls of a window were passed on to next()
RECURSIVE PassedOn(_)
PassedOn(flags) ==
    IF flags = <<>> THEN 0
    ELSE (IF Head(flags) THEN 1 ELSE 0) + PassedOn(Tail(flags))

\* C13: the key of a call is its tool's name plus ":" plus the caller's id
\* (user.id, else userId, else "global"); different tools and different callers
\* have different keys; a call changes no entry but that of its own key; and a
\* call is refused only when its own caller's window on its own tool already
\* holds `limit` calls that were passed on, whatever was called under other keys.
C13_KeyIndependence ==
    /\ \A c1 \in LimitedCalls, c2 \in LimitedCalls :
          Caller(c1[1], c1[2]) # Caller(c2[1], c2[2])
              => DefaultKey(c1[1], c1[2]) # DefaultKey(c2[1], c2[2])
    /\ \A i \in 1..Len(LimiterEvents) :
          LET e == LimiterEvents[i]
              who == Caller(self, context)
          IN  /\ e.key = who[1] \o ":" \o who[2]
              /\ DOMAIN e.after \subseteq DOMAIN e.before \cup {e.key}
              /\ \A k \in DOMAIN e.before :
                    k # e.key => (k \in DOMAIN e.after /\ e.after[k] = e.before[k])
              /\ ~e.passedOn => PassedOn(windows[who].passed) >= limit
              /\ (e.passedOn /\ limit >= 1) => PassedOn(windows[who].passed) <= limit

\* C13 witness: limit 1, one shared limiter; "echo" was called twice by nobody
\* and is exhausted, and the call of "other" by nobody at the same time is
\* passed on and succeeds
C13_Witness ==
    /\ Done /\ limit = 1 /\ self = "other"
    /\ <<"echo", "global">> \in DOMAIN windows
    /\ windows[<<"echo", "global">>].passed = <<TRUE, FALSE>>
    /\ windows[<<"echo", "global">>].start = now
    /\ windows[<<"other", "global">>].passed = <<TRUE>>
    /\ ret.kind = "return" /\ ret.result.success /\ bodyCalls = 1
    /\ storage["echo:global"].count = 1 /\ storage["other:global"].count = 1

\* C14: a result that the core or the rate limiter returns has no error when
\* success is true, and has no data and a string as its error when success is
\* false.
C14_ResultShape ==
    ret.kind = "return" =>
        /\ ret.result.success => ret.result.error = Absent
        /\ ~ret.result.success =>
              /\ ret.result.data = Absent
              /\ ret.result.error # Absent
              /\ The(ret.result.error) \in STRING

\* C14 witness: the limiter's refusal, half a window after the window began:
\* no data, the error text, success false
C14_Witness ==
    /\ Done /\ ret.kind = "return" /\ ~ret.result.success
    /\ ret.result.data = Absent
    /\ ret.result.error = Some("Rate limit exceeded. Try again in 1 seconds.")
    /\ now = TickMs
    /\ bodyCalls = 0

\* the places of the interceptors that throw before calling next()
Throwers == { i \in 1..Len(config.middleware) : config.middleware[i] = "throw" }

\* where the chain ends: at the first interceptor that throws, else in the core
Origin ==
    IF Throwers = {} THEN Len(config.middleware) + 1
    ELSE CHOOSE k \in Throwers : \A j \in Throwers : k <= j

\* how the chain settles where it ends (for a finished call)
OriginOutcome ==
    IF Origin <= Len(config.middleware) THEN Thrown(InterceptorError)
    ELSE OutcomeWithoutHooks

\* the innermost catching interceptor around the place where the chain ends;
\* 0 when there is none
Catcher ==
    LET cs == { c \in 1..(Origin - 1) : config.middleware[c] = "catch" }
    IN  IF cs = {} THEN 0 ELSE CHOOSE c \in cs : \A d \in cs : d <= c

\* the post-phases of the interceptors k, k-1, ..., 1
ExitsFrom(k) == [i \in 1..k |-> [ev |-> "exit", at |-> k + 1 - i]]

ExitEvents == SelectSeq(log, LAMBDA e : e.ev = "exit")

\* C15: in a finished call in which the core or an interceptor threw: with no
\* catching interceptor around it the call has thrown that very error and no
\* post-phase has run; with a catching interceptor m_c around it, m_c's own
\* result is what the call returned, the post-phases of the interceptors
\* between m_c and the throw have not run and those outside m_c have, from
\* m_(c-1) back to m_1.  No error is turned into a result anywhere else.
C15_ExceptionPropagation ==
    /\ (Done /\ OriginOutcome.kind = "throw" /\ Catcher = 0) =>
          /\ ret = OriginOutcome
          /\ ExitEvents = <<>>
    /\ (Done /\ OriginOutcome.kind = "throw" /\ Catcher > 0) =>
          /\ ret = Returned(CaughtResult(OriginOutcome.error))
          /\ ExitEvents = ExitsFrom(Catcher - 1)
    /\ (Done /\ OriginOutcome.kind = "return") =>
          /\ ret = OriginOutcome
          /\ ExitEvents = ExitsFrom(Len(config.middleware))
    /\ (ret.kind = "return" /\ ~ret.result.success) => Catcher > 0

\* C15 witness: the core threw RiskViolationError behind two interceptors that
\* await next() without a try; the call threw it and neither post-phase ran
C15_Witness ==
    /\ Done /\ config.middleware = <<"pass", "pass">>
    /\ Threw("RiskViolationError")
    /\ log = << [ev |-> "enter", at |-> 1], [ev |-> "enter", at |-> 2],
                [ev |-> "core"] >>

\* the call has gone through the pre-phase of a "mutate" interceptor
MutateEntered ==
    \E i \in 1..Len(log) :
        log[i].ev = "enter" /\ config.middleware[log[i].at] = "mutate"

BodyEvents == SelectSeq(log, LAMBDA e : e.ev = "body")

\* C16: while a call is in flight, the args and the context that travel down
\* the chain are those the caller passed: never what an interceptor handed to
\* next(); the args differ from the caller's only by the in-place change of an
\* interceptor that has run; the core validates the args as they then are, and
\* the body receives the outcome of that validation and the caller's context.
C16_ArgumentPassThrough ==
    pc # "idle" =>
        /\ context \in ChainContexts
        /\ args # SwapArgs
        /\ IF MutateEntered
           THEN args \in { Mutated(a) : a \in ChainArgs }
           ELSE args \in ChainArgs
        /\ validated # Absent => validated = SafeParse(args).data
        /\ \A i \in 1..Len(BodyEvents) :
              /\ BodyEvents[i].args =
                    [value |-> IF MutateEntered THEN "modified" ELSE "hi"]
              /\ BodyEvents[i].context = context

\* C16 witness: the caller passed {value: 1}; the first interceptor handed
\* next() another args object, to no effect; the second set value to
\* "modified" in place; the core validated that and the body echoed it
C16_Witness ==
    /\ Done /\ config.middleware = <<"swap", "mutate">>
    /\ args = [type |-> "object", value |-> Some(JsString("modified")),
               extra |-> Absent]
    /\ ret.kind = "return" /\ ret.result.success
    /\ ret.result.data = Some([value |-> "modified"])
    /\ Len(BodyEvents) = 1

OnStartEvents == SelectSeq(log, LAMBDA e : e.ev = "onStart")

\* the core has been entered in this call
CoreEntered == \E i \in 1..Len(log) : log[i].ev = "core"

RootField == <<"_", "r", "o", "o", "t">>

\* the entry the claim states for an issue
StatedFieldError(issue) ==
    [field |-> IF issue.path # <<>> THEN Join(issue.path, <<".">>) ELSE RootField,
     message |-> issue.message]

\* C18 as stated: a ValidationError carries one {field, message} entry per
\* issue, in issue order: the path joined with dots (or "_root" for the empty
\* path) and the issue's message, for every path and every message text.
C18_AsStated ==
    Threw("ValidationError") =>
        LET issues == SafeParse(args).issues
        IN  /\ Len(ret.error.fieldErrors) = Len(issues)
            /\ \A i \in 1..Len(issues) :
                  ret.error.fieldErrors[i] = StatedFieldError(issues[i])

\* C18 witness: the schema reported the root-level issue "no: x"; the
\* ValidationError's entry is {field: "no", message: "x"}
C18_Witness ==
    /\ Done /\ Threw("ValidationError")
    /\ SafeParse(args).issues = << [path |-> <<>>, message |-> <<"n", "o", ":", " ", "x">>] >>
    /\ ret.error.fieldErrors = << [field |-> <<"n", "o">>, message |-> <<"x">>] >>

\* the text is empty or holds whitespace only
WhitespaceOnly(s) == \A i \in 1..Len(s) : s[i] \in Whitespace

\* t is s without the whitespace at its two ends
IsTrimOf(t, s) ==
    /\ t # <<>> => (t[1] \notin Whitespace /\ t[Len(t)] \notin Whitespace)
    /\ \E i \in 0..Len(s), j \in 0..Len(s) :
          /\ i + Len(t) + j = Len(s)
          /\ SubSeq(s, i + 1, i + Len(t)) = t
          /\ WhitespaceOnly(SubSeq(s, 1, i))
          /\ WhitespaceOnly(SubSeq(s, i + Len(t) + 1, Len(s)))

\* C19: a construction whose name or description is missing, empty or
\* whitespace only throws and yields no tool; every other construction yields
\* a tool whose name and description are the inputs without the whitespace at
\* their ends, and are not empty.
C19_Construction ==
    made.kind = "made" =>
        IF \/ made.options.name = Absent
           \/ made.options.description = Absent
           \/ WhitespaceOnly(The(made.options.name))
           \/ WhitespaceOnly(The(made.options.description))
        THEN made.outcome.kind = "throw"
        ELSE /\ made.outcome.kind = "return"
             /\ IsTrimOf(made.outcome.tool.name, The(made.options.name))
             /\ IsTrimOf(made.outcome.tool.description, The(made.options.description))
             /\ made.outcome.tool.name # <<>>
             /\ made.outcome.tool.description # <<>>

\* C19 witness: name " x" and description "x\n" were accepted and stored as
\* "x" and "x"
C19_Witness ==
    /\ made.kind = "made"
    /\ made.options = [name |-> Some(<<" ", "x">>), description |-> Some(<<"x", "\n">>)]
    /\ made.outcome = [kind |-> "return",
                       tool |-> [name |-> <<"x">>, description |-> <<"x">>]]

\* the body outlasted the configured timeout
TimedOut == config.timeout > 0 /\ duration # Absent /\ The(duration) > config.timeout

StepRank(ev) ==
    CASE ev = "core" -> 1
      [] ev = "onStart" -> 2
      [] ev = "body" -> 3
      [] ev \in {"onSuccess", "onError"} -> 4
      [] OTHER -> 0

\* the confirmation gate denies the call (stated from the call's inputs)
ConfirmationGateDenies == config.requiresConfirmation /\ ~CallerConfirmed

C22_AsStated ==
    (Done /\ ArgsValid /\ ConfirmationGateDenies)
        => Threw("ConfirmationRequiredError")

\* C22 (amended): for a call with valid args of a tool with
\* requiresConfirmation and without options.confirmed = true the policy outcome
\* is ConfirmationRequiredError at every risk level at which the role gate
\* passes (LOW, MEDIUM, and HIGH with admin role, isAdmin or sudo); for a
\* HIGH-risk tool called without admin role, isAdmin or sudo it is
\* RiskViolationError.
C22_ConfirmationAfterRisk ==
    (Done /\ ArgsValid /\ ConfirmationGateDenies)
        => /\ ~RoleGateDenies => Threw("ConfirmationRequiredError")
           /\ RoleGateDenies => /\ Threw("RiskViolationError")
                                /\ ret.error.requiredRole = "admin"
           /\ bodyCalls = 0

\* C22 witness: a HIGH-risk tool with requiresConfirmation called with sudo
\* and without confirmation: the role gate passes and the confirmation gate
\* denies
C22_Witness ==
    /\ Done /\ ArgsValid /\ config.riskLevel = "HIGH"
    /\ config.requiresConfirmation /\ ~CallerConfirmed
    /\ CallerHasSudo /\ ~CallerRoleIsAdmin /\ ~CallerFlagIsAdmin
    /\ Threw("ConfirmationRequiredError") /\ bodyCalls = 0

\* the entries of the given hooks that a step adds to the log
NewHookEvents(names) ==
    SelectSeq(SubSeq(log', Len(log) + 1, Len(log')), LAMBDA e : e.ev \in names)

\* C23: hooks are awaited and do not overlap the step they instrument.  The
\* executor is invoked only by the step in which the await of onStart settles,
\* onSuccess and onError are invoked only by the step in which the executor
\* settles, and once the executor has been invoked the call's outcome is set
\* only by the step in which the await of onSuccess or onError settles; while
\* a hook is awaited nothing else of the call advances.
C23_HooksAwaited ==
    [][ /\ (bodyCalls' > bodyCalls) => (pc = "awaitOnStart" /\ pc' = "awaitBody")
        /\ (pc' # "idle" /\ Len(log') > Len(log)
               /\ NewHookEvents({"onSuccess", "onError"}) # <<>>)
              => (pc = "awaitBody" /\ settled = Absent /\ settled' # Absent)
        /\ (bodyCalls > 0 /\ ret = Nothing /\ ret' # Nothing)
              => (pc \in {"awaitOnSuccess", "awaitOnError"} /\ settled # Absent)
        /\ (pc = "awaitOnStart" /\ pc' = pc)
              => UNCHANGED <<bodyCalls, log, ret, settled, duration>>
        /\ (pc \in {"awaitOnSuccess", "awaitOnError"} /\ pc' = pc)
              => UNCHANGED <<bodyCalls, log, ret, settled, duration>>
      ]_vars

\* C23 witness: a tool with all three hooks; time has passed while onStart was
\* awaited, the body has run once and returned, and onSuccess is being awaited
\* with the call's outcome not yet set
C23_Witness ==
    /\ pc = "awaitOnSuccess"
    /\ config.hooks = {"onStart", "onSuccess", "onError"}
    /\ Len(OnStartEvents) = 1 /\ Len(OnSuccessEvents) = 1
    /\ bodyCalls = 1 /\ BodyReturned
    /\ clock > startTime
    /\ ret = Nothing

\* the time at which the executor was invoked
BodyStartedAt == BodyEvents[1].at

\* the executor settles in this step
BodySettles == pc = "awaitBody" /\ pc' \in {"awaitOnSuccess", "awaitOnError"}

\* the duration as the call reports it: in the result's metadata, in the
\* payload of onSuccess or onError, and in the ExecutionError
ReportedDurations ==
    { OnSuccessEvents[i].payload.duration : i \in 1..Len(OnSuccessEvents) }
        \cup { OnErrorEvents[i].payload.duration : i \in 1..Len(OnErrorEvents) }
        \cup (IF ret.kind = "return" /\ ret.result.success
              THEN { The(ret.result.metadata).executionTime } ELSE {})
        \cup (IF Threw("ExecutionError")
              THEN { ret.error.details.executionTime } ELSE {})

\* C24 as stated: the reported duration is the time from immediately before
\* validation to immediately after the body settles, and no hook's time is
\* part of it: it leaves out the time for which onStart was awaited and does
\* not change while onSuccess or onError is awaited.
C24_AsStated ==
    [][ /\ BodySettles =>
              /\ duration' = Some(clock - startTime)
              /\ duration' = Some((clock - startTime) - (BodyStartedAt - startTime))
        /\ (pc \in {"awaitOnSuccess", "awaitOnError"}) => duration' = duration
      ]_vars

\* C24 (amended): the reported duration is the time from immediately before
\* validation to immediately after the body settles; it therefore holds the
\* time for which onStart was awaited as well as the time the body took, and it
\* is independent of the time onSuccess or onError take: every reported value
\* (metadata.executionTime, the hooks' duration, ExecutionError's
\* executionTime) is the value read when the body settled.
C24_Duration ==
    [][ /\ BodySettles =>
              /\ duration' = Some(clock - startTime)
              /\ The(duration') = (BodyStartedAt - startTime) + (clock - BodyStartedAt)
        /\ (pc \in {"awaitOnSuccess", "awaitOnError"}) => duration' = duration
        /\ (duration' # Absent) => (ReportedDurations' \subseteq duration')
        /\ (pc' = "done" /\ duration' # Absent) => (ReportedDurations' = duration')
      ]_vars

\* C24 witness: onStart was awaited for one unit of time, the body settled at
\* once, and the call has returned with executionTime 1, the duration that
\* onSuccess was given
C24_Witness ==
    /\ Done /\ config.hooks = {"onStart", "onSuccess", "onError"}
    /\ BodyReturned
    /\ BodyStartedAt = startTime + 1
    /\ duration = Some(1)
    /\ The(ret.result.metadata).executionTime = 1
    /\ OnSuccessEvents[1].payload.duration = 1

\* C25 as stated: `limit` is the maximum number of requests allowed per window:
\* for every limit >= 0 and every key, the calls passed on to next() within one
\* window are at most `limit`, and no stored count exceeds `limit`.
C25_AsStated ==
    /\ \A who \in DOMAIN windows : PassedOn(windows[who].passed) <= limit
    /\ \A key \in DOMAIN storage : storage[key].count <= limit

\* C25 witness: limit 0; the first call of "echo" by nobody was passed on to
\* next(), ran the body and succeeded, and the entry counts 1
C25_Witness ==
    /\ Done /\ limit = 0 /\ self = "echo"
    /\ <<"echo", "global">> \in DOMAIN windows
    /\ windows[<<"echo", "global">>].passed = <<TRUE>>
    /\ storage["echo:global"].count = 1
    /\ ret.kind = "return" /\ ret.result.success /\ bodyCalls = 1

\* the key under which the limiter files a caller
KeyOf(who) == who[1] \o ":" \o who[2]

\* C26: fixed-window reset.  The window of a key starts at the first call that
\* is passed on (resetTime = that call's time + windowMs); a later call inside
\* the window, passed on or refused, leaves resetTime as it is; the first call
\* with now >= resetTime is passed on and starts a fresh window with count 1,
\* so a key that was refused is passed on again once windowMs has gone by since
\* the first call of its window.
C26_FixedWindow ==
    /\ \A who \in DOMAIN windows :
          /\ KeyOf(who) \in DOMAIN storage
          /\ storage[KeyOf(who)].resetTime = windows[who].start + WindowMs
          /\ windows[who].passed[1]
    /\ \A i \in 1..Len(LimiterEvents) :
          LET e == LimiterEvents[i]
              old == Get(e.before, e.key)
          IN  IF old # Absent /\ now < The(old).resetTime
              THEN /\ e.after[e.key].resetTime = The(old).resetTime
                   /\ e.after[e.key].count
                         = The(old).count + (IF e.passedOn THEN 1 ELSE 0)
              ELSE /\ e.passedOn
                   /\ e.after[e.key] = [count |-> 1, resetTime |-> now + WindowMs]
                   /\ windows[Caller(self, context)]
                         = [start |-> now, passed |-> <<TRUE>>]

\* C26 witness: limit 1, three calls of "echo" by nobody and none by anybody
\* else: the first began a window, the second fell into it and was refused,
\* the third, windowMs after the first, is passed on and begins a new window
C26_Witness ==
    /\ Done /\ limit = 1 /\ calls = 3 /\ self = "echo"
    /\ DOMAIN windows = { <<"echo", "global">> }
    /\ now = WindowMs
    /\ windows[<<"echo", "global">>] = [start |-> WindowMs, passed |-> <<TRUE>>]
    /\ storage["echo:global"] = [count |-> 1, resetTime |-> 2 * WindowMs]
    /\ ret.kind = "return" /\ ret.result.success /\ bodyCalls = 1

\* the suspended calls that the limiter passed on under the given key and
\* that have not yet settled
InFlightUnder(key) ==
    { i \in 1..Len(parked) :
        /\ parked[i].pc \in SuspensionPoints
        /\ \E j \in 1..Len(parked[i].log) :
              /\ parked[i].log[j].ev = "limiter"
              /\ parked[i].log[j].key = key
              /\ parked[i].log[j].passedOn }

SoloCoreOutcome ==
    LET gate == GateError(config, args, context, options)
        data == validate(args).data
    IN  IF gate # Absent THEN Thrown(The(gate))
        ELSE IF The(settled).kind = "return"
        THEN Returned(SuccessResult(config, Executor(The(data)), The(duration)))
        ELSE Thrown(ExecutionError(The(settled).value, data, The(duration)))

\* that outcome on its way up through links i, i - 1, ..., 1
RECURSIVE Through(_, _)
Through(i, outcome) ==
    IF i = 0 THEN outcome
    ELSE Through(i - 1, LinkOutcome(config.middleware[i], outcome))

\* the hook invocations of a call that runs alone, for the call's own inputs
SoloHookEvents ==
    LET gate == GateError(config, args, context, options)
        data == validate(args).data
    IN  IF gate # Absent THEN <<>>
        ELSE HookEvent(config, "onStart",
                       [toolName |-> self, args |-> data, context |-> context])
             \o (IF The(settled).kind = "return"
                 THEN HookEvent(config, "onSuccess",
                          [toolName |-> self, result |-> Executor(The(data)),
                           duration |-> The(duration), context |-> context])
                 ELSE HookEvent(config, "onError",
                          [toolName |-> self, error |-> AsError(The(settled).value),
                           duration |-> The(duration), context |-> context]))

\* C28: calls in flight at once, of the same tool or of different tools whose
\* interceptors keep nothing between calls, do not influence one another:
\* however they are interleaved at their awaits, a finished call has the
\* outcome (result or thrown error), the hook invocations and the number of
\* body invocations that it has when it runs alone, all of them determined by
\* its own tool, args, context and options and by how its own body settled.
C28_CallIndependence ==
    Done =>
        /\ ret = Through(Len(config.middleware), SoloCoreOutcome)
        /\ HookEventsIn(log) = SoloHookEvents
        /\ bodyCalls = (IF GateError(config, args, context, options) = Absent
                        THEN 1 ELSE 0)
        /\ Len(BodyEvents) = bodyCalls
        /\ \A i \in 1..Len(BodyEvents) :
              /\ BodyEvents[i].args = The(validate(args).data)
              /\ BodyEvents[i].context = context
        /\ (settled # Absent /\ The(settled).kind = "return")
              => The(settled).value = Executor(The(validate(args).data))

\* C28 witness: execute({value: "hi"}) of "echo" has returned {value: "hi"} with
\* onStart and onSuccess invoked once each, while execute({value: "yo"}) of
\* "other", begun after it and before it settled, is suspended at the await of
\* its body
C28_Witness ==
    /\ Done /\ self = "echo" /\ config.hooks = HookNames
    /\ ret.kind = "return" /\ ret.result.data = Some([value |-> "hi"])
    /\ Len(OnStartEvents) = 1 /\ Len(OnSuccessEvents) = 1 /\ bodyCalls = 1
    /\ Len(parked) = 1
    /\ parked[1].self = "other" /\ parked[1].pc = "awaitBody"
    /\ parked[1].validated = Some([value |-> "yo"])

\* the code of a caller's interceptor that changes the args object runs in
\* this step
MutatorRuns ==
    /\ pc = "chain"
    /\ idx <= Len(Pipeline(config.middleware))
    /\ Pipeline(config.middleware)[idx].kind = "mutate"

\* C29: the pipeline itself (execute, the chain, the rate limiter, the core
\* and the dispatch of the hooks) never changes the caller's args object nor
\* the caller's context object: from the call of execute to its return or
\* throw, every step but the code of an interceptor that mutates them leaves
\* both as the caller handed them over, whatever the outcome of the call.
C29_CallerObjectsKept ==
    [][ (pc # "idle" /\ pc' # "idle" /\ ~MutatorRuns)
            => (args' = args /\ context' = context) ]_vars

\* C29 witness: execute({value: "hi", extra: "x"}) as user u1 through the rate
\* limiter and a passive interceptor has returned success with the validated
\* data {value: "hi"} handed to the hooks and the body, and the caller's args
\* still hold the unknown property and the caller's context is as it was
C29_Witness ==
    /\ Done /\ config.middleware = <<"limit", "pass">>
    /\ args = RawObject(Some(JsString("hi")), Some(JsString("x")))
    /\ context = [user |-> Some([id |-> "u1", role |-> "guest"]),
                  isAdmin |-> Absent, userId |-> Some("u2")]
    /\ validated = Some([value |-> "hi"])
    /\ Len(LimiterEvents) = 1 /\ LimiterEvents[1].passedOn
    /\ Len(OnStartEvents) = 1 /\ Len(OnSuccessEvents) = 1 /\ bodyCalls = 1
    /\ ret.kind = "return" /\ ret.result.success

\* the interceptors the running call has entered, in order
Entered ==
    LET enters == SelectSeq(log, LAMBDA e : e.ev = "enter")
    IN  [i \in 1..Len(enters) |-> config.middleware[enters[i].at]]

\* C30 as stated: the interceptor list of a tool is fixed at construction:
\* whatever is done afterwards to the array the caller passed, to
\* tool.config.middleware or to another tool built without a middleware
\* override, the array a tool's config.middleware refers to holds what it held
\* when the tool was built, and a call of the tool runs exactly those
\* interceptors.
C30_AsStated ==
    /\ \A t \in DOMAIN built : heap[built[t].ref] = built[t].registered
    /\ (pc # "idle") => config.middleware = built[self].registered
    /\ (Done /\ ret.kind = "return") => Entered = built[self].registered

\* C30 witness: "echo" and "other" were both built without config.middleware,
\* the caller's own array is empty, and a finished call of "echo", registered
\* with no interceptor, has run a "tag" interceptor that was pushed onto a
\* tool's config.middleware after "echo" was built
C30_Witness ==
    /\ Done /\ self = "echo"
    /\ DOMAIN built = {"echo", "other"}
    /\ built["echo"] = [ref |-> DefaultArray, registered |-> <<>>]
    /\ built["other"].ref = DefaultArray
    /\ heap[CallerArray] = <<>>
    /\ Entered = <<"tag">>
    /\ ret.kind = "return" /\ ret.result.metadata = Some([tagged |-> TRUE])

\* ---- C31

\* the parameters the tool was built with and the ones it returned
GivenParameters == emitted.jsonSchema.definitions[emitted.name]
ReturnedParameters == The(emitted.spec).function.parameters
StrictSpecReturned ==
    /\ emitted.kind = "tool"
    /\ emitted.spec # Absent
    /\ emitted.strict = Some(TRUE)

\* what the strict transform is said to do to a node, wherever the node
\* occurs: under properties, under items (of a list and of a tuple) and under
\* anyOf
RECURSIVE StrictEverywhere(_)
StrictEverywhere(node) ==
    LET properties == IF node.properties = Absent THEN Absent
                      ELSE Some([key \in DOMAIN The(node.properties) |->
                                   StrictEverywhere(The(node.properties)[key])])
        items == IF node.items = Absent THEN Absent
                 ELSE IF IsTupleItems(The(node.items))
                 THEN Some(TupleItems([i \in DOMAIN The(node.items).tuple |->
                                         StrictEverywhere(The(node.items).tuple[i])]))
                 ELSE Some(StrictEverywhere(The(node.items)))
        anyOf == IF node.anyOf = Absent THEN Absent
                 ELSE Some([i \in DOMAIN The(node.anyOf) |->
                              StrictEverywhere(The(node.anyOf)[i])])
    IN  IF node.type = Some("object")
        THEN SchemaNode(node.type, properties,
                        Some(IF node.properties = Absent THEN {}
                             ELSE DOMAIN The(node.properties)),
                        Some(FALSE), items, anyOf)
        ELSE SchemaNode(node.type, properties, node.required,
                        node.additionalProperties, items, anyOf)

\* the object nodes of a schema that are reached through properties and
\* through the items of lists only
RECURSIVE NestedPlainly(_)
NestedPlainly(node) ==
    /\ node.anyOf = Absent
    /\ node.items # Absent =>
         /\ ~IsTupleItems(The(node.items))
         /\ NestedPlainly(The(node.items))
    /\ node.properties # Absent =>
         \A key \in DOMAIN The(node.properties) :
            NestedPlainly(The(node.properties)[key])

\* C31 (as stated): in the parameters of getOpenAISpec({strict: true}) every
\* object node, wherever it occurs in the schema tree, has additionalProperties
\* false and required equal to all its property names, and every other node is
\* as it was
C31_AsStated ==
    StrictSpecReturned => ReturnedParameters = StrictEverywhere(GivenParameters)

\* what does hold: the statement for the schemas whose object nodes are nested
\* through properties and list items only
C31_NestedPlainly ==
    StrictSpecReturned /\ NestedPlainly(GivenParameters)
        => ReturnedParameters = StrictEverywhere(GivenParameters)

\* a strict specification was returned for a schema with an optional property
\* that holds a nullable object which itself has an optional property
C31_Witness ==
    /\ StrictSpecReturned
    /\ GivenParameters = LooseObject(NullableOf(LooseObject(StringNode)))
    /\ ReturnedParameters.required = Some({"a"})
    /\ The(ReturnedParameters.properties).a = NullableOf(LooseObject(StringNode))

\* ---- C32

\* how the promise of link k settles in a finished call: the core's outcome
\* below the last interceptor, the blocking interceptor's own result, else what
\* the interceptor makes of the outcome of its next()
RECURSIVE SettledAt(_)
SettledAt(k) ==
    IF k > Len(config.middleware) THEN OutcomeWithoutHooks
    ELSE IF config.middleware[k] = "block" THEN Returned(BlockedResult)
    ELSE LinkOutcome(config.middleware[k], SettledAt(k + 1))

\* C32: a finished call has resolved to (or thrown) exactly what its outermost
\* interceptor m1 returned (or threw), which may be the inner result replaced
\* or modified in m1's post-phase; with no interceptor that is exactly the
\* core's result.  execute adds, removes and rewrites no field on the way out.
C32_ResultOfOutermost ==
    Done =>
        /\ ret = SettledAt(1)
        /\ config.middleware = <<>> => ret = OutcomeWithoutHooks

\* C32 witness: a call through <<tag, pass>> whose body ran has returned the
\* core's result with the metadata the outermost interceptor put in its place
C32_Witness ==
    /\ Done
    /\ config.middleware = <<"tag", "pass">>
    /\ bodyCalls = 1
    /\ ret.kind = "return"
    /\ ret.result.success
    /\ ret.result.metadata = Some([tagged |-> TRUE])
    /\ ret.result # OutcomeWithoutHooks.result

\* ---- C33

\* C33: the two options gate independently, for the calls that reach the gates
\* (their args pass validation).  options.sudo = true lets a call through the
\* role gate only: a HIGH-risk call with requiresConfirmation and sudo and
\* without confirmed = true throws ConfirmationRequiredError, and so does every
\* unconfirmed call that the role gate lets through, whoever the caller is.
\* options.confirmed = true lets a call through the confirmation gate only: a
\* HIGH-risk call that is confirmed but has neither the admin role, nor
\* isAdmin, nor sudo throws RiskViolationError.  The body runs only when both
\* gates pass.
C33_IndependentGates ==
    /\ (Done /\ ArgsValid) =>
          /\ (config.riskLevel = "HIGH" /\ config.requiresConfirmation
                /\ CallerHasSudo /\ ~CallerConfirmed)
                => (Threw("ConfirmationRequiredError") /\ bodyCalls = 0)
          /\ (config.riskLevel = "HIGH" /\ CallerConfirmed /\ CallerUnprivileged)
                => (Threw("RiskViolationError") /\ bodyCalls = 0)
          /\ (~RoleGateDenies /\ ConfirmationGateDenies)
                => Threw("ConfirmationRequiredError")
          /\ RoleGateDenies => Threw("RiskViolationError")
    /\ bodyCalls > 0 => (~RoleGateDenies /\ ~ConfirmationGateDenies)

\* C33 witness: a HIGH-risk tool with requiresConfirmation was called with
\* valid args and {sudo: true} by a caller who is no admin and did not
\* confirm: the call threw ConfirmationRequiredError and the body did not run
C33_Witness ==
    /\ Done /\ ArgsValid
    /\ config.riskLevel = "HIGH" /\ config.requiresConfirmation
    /\ CallerHasSudo /\ ~CallerConfirmed
    /\ ~CallerRoleIsAdmin /\ ~CallerFlagIsAdmin
    /\ Threw("ConfirmationRequiredError")
    /\ bodyCalls = 0

\* ---- C34

\* 1 when the hook is configured, else 0
Configured(hookName) == IF hookName \in config.hooks THEN 1 ELSE 0

\* onSuccess was invoked and threw or rejected
OnSuccessFailed == \E f \in hookFailures : f.hook = "onSuccess"

\* the places in the log of the events of one kind
PlacesOf(evs) == { i \in 1..Len(log) : log[i].ev \in evs }

\* C34: in a core run that passes validation and both gates the hooks that are
\* configured are invoked as follows: onStart once, before the body; after the
\* body exactly one of onSuccess (the body returned) and onError (the body
\* threw), once, never both.  This holds as well when onSuccess itself throws
\* or rejects after the body returned: onError is not invoked and the call
\* returns the success result.
C34_HooksExactlyOnce ==
    /\ Len(OnStartEvents) <= Configured("onStart")
    /\ Len(OnSuccessEvents) + Len(OnErrorEvents) <= 1
    /\ \A i \in PlacesOf({"onStart"}), j \in PlacesOf({"body"}) : i < j
    /\ \A i \in PlacesOf({"body"}), j \in PlacesOf({"onSuccess", "onError"}) : i < j
    /\ PlacesOf({"body"}) # {} => Len(OnStartEvents) = Configured("onStart")
    /\ (Done /\ GateError(config, args, context, options) = Absent) =>
          /\ bodyCalls = 1
          /\ Len(OnStartEvents) = Configured("onStart")
          /\ BodyReturned =>
                /\ Len(OnSuccessEvents) = Configured("onSuccess")
                /\ OnErrorEvents = <<>>
                /\ ret = Returned(SuccessResult(config, The(settled).value,
                                                The(duration)))
          /\ BodyThrew =>
                /\ Len(OnErrorEvents) = Configured("onError")
                /\ OnSuccessEvents = <<>>
                /\ Threw("ExecutionError")
          /\ BodyReturned \/ BodyThrew
    /\ (Done /\ OnSuccessFailed) =>
          /\ BodyReturned
          /\ Len(OnSuccessEvents) = 1
          /\ OnErrorEvents = <<>>
          /\ ret.kind = "return" /\ ret.result.success

\* C34 witness: with all three hooks configured the body returned, onSuccess
\* threw, and the call has returned the success result with onStart and
\* onSuccess invoked once each and onError never
C34_Witness ==
    /\ Done
    /\ config.hooks = HookNames
    /\ OnSuccessFailed
    /\ Len(OnStartEvents) = 1
    /\ Len(OnSuccessEvents) = 1
    /\ OnErrorEvents = <<>>
    /\ BodyReturned
    /\ ret.kind = "return" /\ ret.result.success

\* ---- C35

\* C35: the body is invoked only with validated input.  Whenever the body has
\* been invoked, the args as they reached the core (after the pre-phases of
\* all interceptors) passed validation; what the body received, and what
\* onStart received as args, is the data the validator returned for them
\* (unknown keys stripped), not the args object itself.
C35_ValidatedInputOnly ==
    /\ (bodyCalls > 0 \/ BodyEvents # <<>> \/ OnStartEvents # <<>>) =>
          /\ SafeParse(args).success
          /\ validated = SafeParse(args).data
    /\ \A i \in 1..Len(BodyEvents) :
          /\ BodyEvents[i].args = The(SafeParse(args).data)
          /\ BodyEvents[i].args # args
    /\ \A i \in 1..Len(OnStartEvents) :
          /\ OnStartEvents[i].payload.args = SafeParse(args).data
          /\ OnStartEvents[i].payload.args # Some(args)
    /\ (CoreEntered /\ ~SafeParse(args).success) =>
          (bodyCalls = 0 /\ settled = Absent /\ OnStartEvents = <<>>)

\* C35 witness: the caller passed {value: "hi", extra: "x"} through a passing
\* interceptor; the body ran once and it, like onStart, received {value: "hi"}
C35_Witness ==
    /\ Done
    /\ config.middleware = <<"pass">>
    /\ args = RawObject(Some(JsString("hi")), Some(JsString("x")))
    /\ bodyCalls = 1
    /\ Len(BodyEvents) = 1
    /\ BodyEvents[1].args = [value |-> "hi"]
    /\ Len(OnStartEvents) = 1
    /\ OnStartEvents[1].payload.args = Some([value |-> "hi"])

\* ---- C36

\* the limiter's entry in the log of the call in flight, when it passed the
\* call on
Admitted(l) ==
    LET evs == SelectSeq(l, LAMBDA e : e.ev = "limiter")
    IN  evs # <<>> /\ evs[1].passedOn

AdmissionIn(l) == SelectSeq(l, LAMBDA e : e.ev = "limiter")[1]

\* the count the admission found under its key: 0 with no entry or an expired
\* one
CountBefore(e) ==
    IF e.key \in DOMAIN e.before /\ e.key \in DOMAIN e.after
          /\ e.before[e.key].resetTime = e.after[e.key].resetTime
    THEN e.before[e.key].count
    ELSE 0

\* C36: the limiter charges before the rest of the chain runs.  At the moment
\* it passes a call on, the count of the call's key is one more than it found
\* (1 in a fresh window); nothing that happens downstream takes the unit back:
\* when the call is over, having returned a result, thrown ValidationError,
\* RiskViolationError, ConfirmationRequiredError or ExecutionError, or been
\* answered by an interceptor that did not call next(), the storage is as the
\* limiter left it.  No step lowers the count of a window.
C36_ChargedBeforeInner ==
    [][ /\ \A k \in DOMAIN storage :
              /\ k \in DOMAIN storage'
              /\ storage'[k].resetTime >= storage[k].resetTime
              /\ storage'[k].resetTime = storage[k].resetTime
                    => storage'[k].count >= storage[k].count
        /\ (Admitted(log') /\ ~Admitted(log)) =>
              /\ storage' = AdmissionIn(log').after
              /\ storage'[AdmissionIn(log').key].count
                    = CountBefore(AdmissionIn(log')) + 1
              /\ bodyCalls' = 0 /\ validated' = Absent
              /\ \A i \in 1..Len(log') : log'[i].ev = "limiter"
        /\ (Admitted(log') /\ pc' # "idle") =>
              /\ storage' = AdmissionIn(log').after
              /\ storage'[AdmissionIn(log').key].count
                    = CountBefore(AdmissionIn(log')) + 1
      ]_vars

\* C36 witness: with limit 1 a call was passed on by the limiter and then threw
\* ValidationError; the body never ran, and the key's window holds the call
C36_Witness ==
    /\ Done
    /\ limit = 1
    /\ Admitted(log)
    /\ Threw("ValidationError")
    /\ bodyCalls = 0
    /\ storage[AdmissionIn(log).key].count = 1
    /\ Exceeded(Get(storage, AdmissionIn(log).key), now, limit)

\* ---- C37

\* the last entry the limiter wrote into the log of the call in flight
LastAdmission(l) ==
    LET evs == SelectSeq(l, LAMBDA e : e.ev = "limiter") IN evs[Len(evs)]

\* C37: the cleanup is unobservable.  Every call is decided (passed on or
\* refused) as a limiter that never runs the cleanup decides it, for every
\* sequence of calls and every placing of the cleanup's runs among them: an
\* entry that the cleanup has deleted is one whose window is over, which the
\* admission treats as it treats no entry, and every entry that is there is
\* the one the limiter without cleanup holds.
C37_CleanupUnobservable ==
    [][ /\ calls' = calls + 1 =>
              LET key == DefaultKey(ToolName, context)
              IN  /\ Exceeded(Get(storage, key), now, limit)
                        <=> Exceeded(Get(reference, key), now, limit)
                  /\ LastAdmission(log').passedOn
                        <=> ~Exceeded(Get(reference, key), now, limit)
                  /\ Charged(Get(storage, key), now)
                        = Charged(Get(reference, key), now)
        /\ DOMAIN storage' \subseteq DOMAIN reference'
        /\ \A k \in DOMAIN reference' :
              IF k \in DOMAIN storage'
              THEN storage'[k] = reference'[k]
              ELSE ~InWindow(Get(reference', k), now')
      ]_vars

\* C37 witness: with limit 1 the only key ever used is "echo:global"; its
\* second call found no entry, the cleanup having deleted the one of the first
\* call after its window was over, and was passed on with a fresh window, as
\* by the limiter that never cleans up
C37_Witness ==
    /\ Done
    /\ limit = 1
    /\ calls = 2
    /\ DOMAIN reference = {"echo:global"}
    /\ LastAdmission(log).key = "echo:global"
    /\ LastAdmission(log).before = << >>
    /\ LastAdmission(log).passedOn
    /\ storage = reference
    /\ storage["echo:global"].count = 1

====
